---------------------------- MODULE Spec2Model ----------------------------
(* State-machine model of the authentication / authorization layer of the  *)
(* affiliate-management server (src/src/server).  The datastore (Prisma)   *)
(* is a shared store on which every awaited query is one atomic step; the  *)
(* synchronous JavaScript that runs after an awaited query resumes is part *)
(* of that step.  Requests are handled concurrently: each in-flight        *)
(* request occupies one slot of reqs and advances one awaited step at a    *)
(* time, so steps of different requests interleave freely.                 *)
(* The display name of a user and the timestamps are payload only and are  *)
(* left out of the records.                                                *)
EXTENDS Integers, Sequences, FiniteSets, TLC

\* ----------------------------------------------------------------- bounds
\* Clock ticks the model runs for.
MaxClock == 3
\* Requests that arrive in one behaviour.
MaxRequests == 2
\* Requests that can be in flight at the same time.
MaxInFlight == 2

\* ------------------------------------------------------ program constants
\* Token lifetimes in clock ticks.  One tick stands for the access-token
\* lifetime ('15m'); the refresh lifetime ('7d') is scaled down to three ticks,
\* which keeps ACCESS_TOKEN_EXPIRY < REFRESH_TOKEN_EXPIRY.
ACCESS_TOKEN_EXPIRY == 1
REFRESH_TOKEN_EXPIRY == 3

Roles == {"ADMIN", "STAFF", "MEMBER", "OWNER"}
PostStatuses == {"DRAFT", "PUBLISHED", "ARCHIVED"}

\* A field a JSON body or a query string does not carry.
Undefined == "undefined"

VARIABLES
    env,      \* process.env: JWT_ACCESS_SECRET and JWT_REFRESH_SECRET ("" = unset)
    now,      \* the clock jwt.sign and jwt.verify read
    users,    \* the user table: id -> record (NoUser = no such row)
    posts,    \* the post table: id -> record (NoPost = no such row)
    issued,   \* every token the server has put in a response
    reqs,     \* the requests in flight, one per slot
    last,     \* what the step just taken did: the request as it left it
    nReq,     \* requests that have arrived so far
    client    \* the browser: localStorage and the call of HttpClient.makeRequest

vars == <<env, now, users, posts, issued, reqs, last, nReq, client>>

Slots == 1..MaxInFlight

\* ------------------------------------------------------------- the tables
UserIds == {"u_admin", "u_owner", "u_staff", "u_member"}
\* The ids of the post table in the order the rows are created: the three
\* seeded posts, then the posts the clients create.
PostOrder == <<"p1", "p2", "p3", "p4">>
PostIds == {PostOrder[i] : i \in 1..Len(PostOrder)}
SeededPostIds == {"p1", "p2", "p3"}

NoUser == [id |-> "", email |-> "", password |-> "", role |-> "", isActive |-> FALSE]
NoPost == [id |-> "", status |-> "", authorId |-> "", createdById |-> "", title |-> <<>>, content |-> <<>>]

\* The row of a deleted post: its id (a cuid) is never given out again.
Deleted == [NoPost EXCEPT !.id = "deleted"]

\* bcrypt.hash / bcrypt.compare: the hash of p is the tagged value "$2a$" \o p,
\* and compare(p, h) holds exactly when h is the hash of p.
BcryptHash(p) == "$2a$" \o p
\* bcrypt.compare without its await: the pending promise is truthy.
BcryptCompareNotAwaited(p, h) == TRUE
BcryptCompare(p, h) == h = BcryptHash(p)

SeedUser(id, email, password, role) ==
    [id |-> id, email |-> email, password |-> BcryptHash(password), role |-> role, isActive |-> TRUE]

SeedUsers ==
    [id \in UserIds |->
        CASE id = "u_admin"  -> SeedUser(id, "admin@site.local", "Admin@12345", "ADMIN")
          [] id = "u_owner"  -> SeedUser(id, "owner@example.com", "password123", "OWNER")
          [] id = "u_staff"  -> SeedUser(id, "staff@example.com", "password123", "STAFF")
          [] id = "u_member" -> SeedUser(id, "member@example.com", "password123", "MEMBER")]

SeedPosts ==
    [id \in PostIds |->
        IF id \notin SeededPostIds THEN NoPost ELSE
        [id |-> id, status |-> IF id = "p3" THEN "DRAFT" ELSE "PUBLISHED",
         authorId |-> "u_admin", createdById |-> "u_admin",
         title |-> CASE id = "p1" -> <<"H", "i">> [] id = "p2" -> <<"G", "o">> [] OTHER -> <<"S", "o">>,
         content |-> <<"o", "k">>]]

\* prisma.user.findUnique({ where: { id } })
FindUserById(id) == IF id \in DOMAIN users THEN users[id] ELSE NoUser

\* prisma.user.findUnique({ where: { email } })
FindUserByEmail(email) ==
    IF \E id \in DOMAIN users : users[id] # NoUser /\ users[id].email = email
    THEN users[CHOOSE id \in DOMAIN users : users[id] # NoUser /\ users[id].email = email]
    ELSE NoUser

\* ------------------------------------------------------------- the tokens
\* JWT secret keys: the environment's value, or the fallback when it is unset
\* or empty.
ACCESS_SECRET == IF env.JWT_ACCESS_SECRET = "" THEN "fallback-access-secret" ELSE env.JWT_ACCESS_SECRET
REFRESH_SECRET == IF env.JWT_REFRESH_SECRET = "" THEN "fallback-refresh-secret" ELSE env.JWT_REFRESH_SECRET

\* One blank-separated part of an Authorization header, or a token string in
\* a body.  kind: "jwt" (a well-formed signed token), "malformed" (a string
\* that is no JWT), "word" (the scheme word, such as Bearer), "undefined".
\* A JWT is its signing key and its payload: userId, email, role, iat, exp.
Part(kind, key, userId, email, role, iat, exp) ==
    [kind |-> kind, key |-> key, userId |-> userId, email |-> email, role |-> role,
     iat |-> iat, exp |-> exp]
NoToken == Part("undefined", "", "", "", "", 0, 0)
Bearer == Part("word", "", "", "", "", 0, 0)
Malformed == Part("malformed", "", "", "", "", 0, 0)

\* jwt.sign(payload, secret, { expiresIn }): iat is the clock, exp = iat + expiresIn.
JwtSign(payload, secret, expiresIn) ==
    Part("jwt", secret, payload.userId, payload.email, payload.role, now, now + expiresIn)

\* jwt.verify with the expiry compared one tick late: a token still passes at
\* the instant the clock reaches exp.
JwtVerifyLate(token, secret) ==
    IF token.kind # "jwt" THEN "JsonWebTokenError"
    ELSE IF token.key # secret THEN "JsonWebTokenError"
    ELSE IF now > token.exp THEN "TokenExpiredError"
    ELSE "ok"

\* jwt.decode in place of jwt.verify: the payload is read and the expiry is
\* honoured, the signature is not checked.
JwtDecode(token, secret) ==
    IF token.kind # "jwt" THEN "JsonWebTokenError"
    ELSE IF now >= token.exp THEN "TokenExpiredError"
    ELSE "ok"

\* jwt.verify(token, secret): the signature is checked before the expiry, and
\* a token is expired when the clock has reached exp.
JwtVerify(token, secret) ==
    IF token.kind # "jwt" THEN "JsonWebTokenError"
    ELSE IF token.key # secret THEN "JsonWebTokenError"
    ELSE IF now >= token.exp THEN "TokenExpiredError"
    ELSE "ok"

generateTokens(user) ==
    LET payload == [userId |-> user.id, email |-> user.email, role |-> user.role]
    IN  [accessToken  |-> JwtSign(payload, ACCESS_SECRET, ACCESS_TOKEN_EXPIRY),
         refreshToken |-> JwtSign(payload, REFRESH_SECRET, REFRESH_TOKEN_EXPIRY)]

\* ---------------------------------------------------- requests, responses
NoResp == [status |-> 0, code |-> "", by |-> "", accessToken |-> NoToken, refreshToken |-> NoToken,
           posts |-> <<>>, user |-> NoUser, details |-> {}]

\* res.status(status).json({ error: { code } }), sent by the function `by`.
Error(status, code, by) == [NoResp EXCEPT !.status = status, !.code = code, !.by = by]
\* The 400 of a handler whose validationResult is not empty: details names
\* the fields that failed (errors.array()).
ValidationError(by, details) == [Error(400, "VALIDATION_ERROR", by) EXCEPT !.details = details]
\* res.status(status).json({ success: true, data })
Success(status, by) == [NoResp EXCEPT !.status = status, !.code = "success", !.by = by]

EmptyBody ==
    [email |-> Undefined, password |-> Undefined, refreshToken |-> NoToken,
     id |-> Undefined, role |-> Undefined, isActive |-> Undefined,
     status |-> Undefined, search |-> <<>>, page |-> 0, limit |-> 0,
     title |-> <<>>, content |-> <<>>, authorId |-> Undefined]

\* A request: the route (op), where its handler stands (pc), the body, params
\* and query it still needs (body), req.user, the row its handler has read
\* (found), the middleware that have called next(), and its response (resp).
Idle == [op |-> "idle", pc |-> "idle", body |-> EmptyBody,
         user |-> NoUser, found |-> NoUser, next |-> <<>>, resp |-> NoResp]

Free(s) == reqs[s].pc = "idle"
\* A request that arrives takes the lowest free slot.
FreeSlot(s) == Free(s) /\ \A r \in Slots : r < s => ~Free(r)
Arrives(s) == nReq < MaxRequests /\ FreeSlot(s)

Request(op, body) == [Idle EXCEPT !.op = op, !.body = body]
\* The response is sent and the request is over.
Respond(r, resp) == [r EXCEPT !.pc = "done", !.resp = resp, !.body = EmptyBody, !.found = NoUser]

\* The tokens a response hands to the client.
TokensOf(resp) == {resp.accessToken, resp.refreshToken} \ {NoToken}

\* The step just taken, for the properties below: the action, the request as
\* the step left it, the Authorization header it arrived with (<<>> for a
\* step that is not an arrival) and the refresh token of its body.  A tick of the clock clears it, so that in every
\* state with a step in last the clock is the one that step read.
NoStep == [act |-> "", req |-> Idle, hdr |-> <<>>, token |-> NoToken]

\* A step of the request in slot s that leaves it as r: still in flight, or
\* answered, which frees the slot and hands the response's tokens out.
Step(s, act, r, hdr, token) ==
    /\ reqs' = [reqs EXCEPT ![s] = IF r.pc = "done" THEN Idle ELSE r]
    /\ issued' = issued \cup TokensOf(r.resp)
    /\ last' = [act |-> act, req |-> r, hdr |-> hdr, token |-> token]

\* ---------------------------------------------------------------- the gate
\* const token = authHeader && authHeader.split(' ')[1]; hdr is the header
\* already split at its blanks (<<>> when the request carries no header).
HeaderToken(hdr) == IF Len(hdr) >= 2 THEN hdr[2] ELSE NoToken

\* The select of authenticateToken's findUnique: every column but the password.
SelectUser(u) == [u EXCEPT !.password = ""]

\* The record a gate would attach if it trusted the token's claims: the
\* stored row with the email and the role of the decoded payload.
GateUserFromClaims(decoded) ==
    IF FindUserById(decoded.userId) = NoUser THEN NoUser
    ELSE [SelectUser(FindUserById(decoded.userId)) EXCEPT
             !.email = decoded.email, !.role = decoded.role]

\* The record a gate would attach if it kept the rows it has read in a cache
\* that is never refreshed: the row as it was when the server started.
GateUserCached(decoded) ==
    IF decoded.userId \in UserIds THEN SelectUser(SeedUsers[decoded.userId])
    ELSE SelectUser(FindUserById(decoded.userId))

\* The record authenticateToken attaches for the decoded payload: the row that
\* findUnique({ where: { id: decoded.userId } }) returns.
GateUser(decoded) == SelectUser(FindUserById(decoded.userId))

\* authenticateToken without its isActive check.
authenticateTokenNoActiveCheck(r, hdr) ==
    LET token   == HeaderToken(hdr)
        verdict == JwtVerify(token, ACCESS_SECRET)
        user    == GateUser(token)
        by      == "authenticateToken"
    IN  IF token.kind = "undefined" THEN Respond(r, Error(401, "MISSING_TOKEN", by))
        ELSE IF verdict = "TokenExpiredError" THEN Respond(r, Error(401, "TOKEN_EXPIRED", by))
        ELSE IF verdict = "JsonWebTokenError" THEN Respond(r, Error(401, "INVALID_TOKEN", by))
        ELSE IF user = NoUser THEN Respond(r, Error(401, "USER_NOT_FOUND", by))
        ELSE [r EXCEPT !.user = user, !.next = Append(@, by)]

authenticateToken(r, hdr) ==
    LET token   == HeaderToken(hdr)
        verdict == JwtVerify(token, ACCESS_SECRET)
        user    == GateUser(token)
        by      == "authenticateToken"
    IN  IF token.kind = "undefined" THEN Respond(r, Error(401, "MISSING_TOKEN", by))
        ELSE IF verdict = "TokenExpiredError" THEN Respond(r, Error(401, "TOKEN_EXPIRED", by))
        ELSE IF verdict = "JsonWebTokenError" THEN Respond(r, Error(401, "INVALID_TOKEN", by))
        ELSE IF user = NoUser THEN Respond(r, Error(401, "USER_NOT_FOUND", by))
        ELSE IF ~user.isActive THEN Respond(r, Error(401, "USER_INACTIVE", by))
        ELSE [r EXCEPT !.user = user, !.next = Append(@, by)]

\* A role check by rank: a role passes when it ranks at least as high as the
\* lowest role of the allow-list.
Rank(role) == CASE role = "ADMIN" -> 4 [] role = "OWNER" -> 3 [] role = "STAFF" -> 2 [] OTHER -> 1
requireRoleRanked(roles, r) ==
    IF r.user = NoUser THEN Respond(r, Error(401, "UNAUTHORIZED", "requireRole"))
    ELSE IF \A role \in roles : Rank(r.user.role) < Rank(role)
         THEN Respond(r, Error(403, "INSUFFICIENT_PERMISSIONS", "requireRole"))
    ELSE [r EXCEPT !.next = Append(@, "requireRole")]

requireRole(roles, r) ==
    IF r.user = NoUser THEN Respond(r, Error(401, "UNAUTHORIZED", "requireRole"))
    ELSE IF r.user.role \notin roles
         THEN Respond(r, Error(403, "INSUFFICIENT_PERMISSIONS", "requireRole"))
    ELSE [r EXCEPT !.next = Append(@, "requireRole")]

\* An admin check that also lets STAFF through.
requireAdminOrStaff(r) == requireRole({"ADMIN", "STAFF"}, r)
requireAdmin(r) == requireRole({"ADMIN"}, r)
requireStaff(r) == requireRole({"ADMIN", "STAFF"}, r)
requireAuth(r)  == requireRole({"ADMIN", "STAFF", "MEMBER", "OWNER"}, r)

\* The routes of the posts router and of the users router.
PostOps == {"GET /api/posts", "GET /api/posts/:id", "POST /api/posts",
            "PUT /api/posts/:id", "DELETE /api/posts/:id"}
UserOps == {"GET /api/users", "GET /api/users/:id", "POST /api/users",
            "PUT /api/users/:id", "DELETE /api/users/:id"}
GatedOps == PostOps \cup UserOps

\* The role middleware each route names: none for the two post reads,
\* requireStaff for post create and update, requireAdmin for the rest.
RoleMiddleware(r) ==
    IF r.op \in {"GET /api/posts", "GET /api/posts/:id"} THEN r
    ELSE IF r.op \in {"POST /api/posts", "PUT /api/posts/:id"} THEN requireStaff(r)
    ELSE requireAdmin(r)

\* router.use(authenticateToken), then the route's role middleware: the
\* request as it enters the route's handler, or answered (pc "done").
Gate(r, hdr) ==
    LET a == authenticateToken(r, hdr)
    IN  IF a.pc = "done" THEN a ELSE RoleMiddleware(a)

\* ---------------------------------------------------------- the auth router
\* express-validator's isEmail() and normalizeEmail() on the addresses the
\* clients of this model send.
IsEmail(e) == e \notin {"not-an-email", Undefined}
NormalizeEmail(e) == IF e = "Member@Example.com" THEN "member@example.com" ELSE e

\* POST /api/auth/login up to the await of bcrypt.compare: the validators, the
\* lookup by email and the two checks on the row that was read.
Login(s, email, password) ==
    /\ Arrives(s)
    /\ LET r    == Request("POST /api/auth/login",
                           [EmptyBody EXCEPT !.email = NormalizeEmail(email), !.password = password])
           user == FindUserByEmail(r.body.email)
           by   == "login"
       IN  Step(s, "Login", IF ~IsEmail(email) \/ Len(password) < 6
                   THEN Respond(r, Error(400, "VALIDATION_ERROR", by))
                   ELSE IF user = NoUser THEN Respond(r, Error(401, "INVALID_CREDENTIALS", by))
                   ELSE IF ~user.isActive THEN Respond(r, Error(401, "ACCOUNT_INACTIVE", by))
                   ELSE [r EXCEPT !.pc = "compare", !.found = user], <<>>, NoToken)
    /\ nReq' = nReq + 1
    /\ UNCHANGED <<client, env, now, users, posts>>

\* The login handler once bcrypt.compare has resolved: the tokens are made
\* from the row read before the await.
LoginCompare(s) ==
    /\ reqs[s].op = "POST /api/auth/login" /\ reqs[s].pc = "compare"
    /\ LET r      == reqs[s]
           user   == r.found
           tokens == generateTokens(user)
       IN  Step(s, "LoginCompare", Respond(r,
                IF ~BcryptCompare(r.body.password, user.password)
                THEN Error(401, "INVALID_CREDENTIALS", "login")
                ELSE [Success(200, "login") EXCEPT
                         !.user = SelectUser(user),
                         !.accessToken = tokens.accessToken,
                         !.refreshToken = tokens.refreshToken]), <<>>, NoToken)
    /\ UNCHANGED <<client, env, now, users, posts, nReq>>

\* refreshAccessToken: the new token pair, or Thrown when it throws (every
\* failure is rethrown as 'Invalid refresh token').
Thrown == [accessToken |-> NoToken, refreshToken |-> NoToken]
\* A refresh that copies the claims of the refresh token into the new pair.
refreshFromClaims(refreshToken) ==
    LET user == FindUserById(refreshToken.userId)
    IN  IF JwtVerify(refreshToken, REFRESH_SECRET) # "ok" THEN Thrown
        ELSE IF user = NoUser \/ ~user.isActive THEN Thrown
        ELSE generateTokens([id |-> refreshToken.userId, email |-> refreshToken.email,
                             role |-> refreshToken.role])
\* A refresh that looks the user up and does not test isActive.
refreshWithoutActiveCheck(refreshToken) ==
    LET user == FindUserById(refreshToken.userId)
    IN  IF JwtVerify(refreshToken, REFRESH_SECRET) # "ok" THEN Thrown
        ELSE IF user = NoUser THEN Thrown
        ELSE generateTokens(user)
refreshAccessToken(refreshToken) ==
    LET user == FindUserById(refreshToken.userId)
    IN  IF JwtVerify(refreshToken, REFRESH_SECRET) # "ok" THEN Thrown
        ELSE IF user = NoUser \/ ~user.isActive THEN Thrown
        ELSE generateTokens(user)

\* A refresh route that rotates: it also returns the new refresh token.
RefreshResponseRotating(refreshToken) ==
    LET tokens == refreshAccessToken(refreshToken)
    IN  IF refreshToken.kind = "undefined"
        THEN Error(400, "MISSING_REFRESH_TOKEN", "refresh")
        ELSE IF tokens = Thrown
        THEN Error(401, "INVALID_REFRESH_TOKEN", "refresh")
        ELSE [Success(200, "refresh") EXCEPT !.accessToken = tokens.accessToken,
                                             !.refreshToken = tokens.refreshToken]

\* The response of POST /api/auth/refresh to a body with this refreshToken.
RefreshResponse(refreshToken) ==
    LET tokens == refreshAccessToken(refreshToken)
    IN  IF refreshToken.kind = "undefined"
        THEN Error(400, "MISSING_REFRESH_TOKEN", "refresh")
        ELSE IF tokens = Thrown
        THEN Error(401, "INVALID_REFRESH_TOKEN", "refresh")
        ELSE [Success(200, "refresh") EXCEPT !.accessToken = tokens.accessToken]

\* POST /api/auth/refresh
Refresh(s, refreshToken) ==
    /\ Arrives(s)
    /\ LET r == Request("POST /api/auth/refresh", EmptyBody)
       IN  Step(s, "Refresh", Respond(r, RefreshResponse(refreshToken)), <<>>, refreshToken)
    /\ nReq' = nReq + 1
    /\ UNCHANGED <<client, env, now, users, posts>>

\* The middleware of the auth router: it has no router.use and its routes
\* name none, so a request reaches its handler as it arrived, req.user unset.
AuthRouterMiddleware(r, hdr) == r

\* GET /api/auth/me: 401 UNAUTHORIZED without req.user, else the fields of
\* req.user.
MeResponse(r) ==
    IF r.user = NoUser THEN Error(401, "UNAUTHORIZED", "me")
    ELSE [Success(200, "me") EXCEPT !.user = r.user]

Me(s, hdr) ==
    /\ Arrives(s)
    /\ LET r == AuthRouterMiddleware(Request("GET /api/auth/me", EmptyBody), hdr)
       IN  Step(s, "Me", Respond(r, MeResponse(r)), hdr, NoToken)
    /\ nReq' = nReq + 1
    /\ UNCHANGED <<client, env, now, users, posts>>

\* body('role').isIn(['ADMIN', 'STAFF', 'MEMBER', 'OWNER']) with any string let through.
IsAnyRole(role) == role # Undefined
\* body('role').isIn(['ADMIN', 'STAFF', 'MEMBER', 'OWNER'])
IsRole(role) == role \in Roles

\* The validators of POST /api/auth/register and of POST /api/users: the
\* fields of the body that fail.
InvalidNewUser(email, password, role) ==
    {f \in {"email"} : ~IsEmail(email)} \cup {f \in {"password"} : Len(password) < 8}
        \cup {f \in {"role"} : ~IsRole(role)}

\* The id (a cuid) of the next row of the user table.
NewUserId == "u" \o ToString(Cardinality(DOMAIN users) + 1)

\* The data of prisma.user.create: email, the hashed password and the role
\* of the body; the row is active as the seeded rows are.
NewUser(r, id) ==
    [id |-> id, email |-> r.body.email, password |-> BcryptHash(r.body.password),
     role |-> r.body.role, isActive |-> TRUE]

\* The email column is unique (it is the key of findUnique and of the seed's
\* upsert): a create of an address that a row holds throws.
EmailTaken(email) == FindUserByEmail(email) # NoUser

\* POST /api/auth/register up to its first query: the validators.
Register(s, email, password, role) ==
    /\ Arrives(s)
    /\ LET r == Request("POST /api/auth/register",
                        [EmptyBody EXCEPT !.email = NormalizeEmail(email), !.password = password,
                                          !.role = role])
       IN  Step(s, "Register", IF InvalidNewUser(email, password, role) # {}
                   THEN Respond(r, ValidationError("register", InvalidNewUser(email, password, role)))
                   ELSE [r EXCEPT !.pc = "find"], <<>>, NoToken)
    /\ nReq' = nReq + 1
    /\ UNCHANGED <<client, env, now, users, posts>>

\* const existingUser = await prisma.user.findUnique({ where: { email } }),
\* and then the await of bcrypt.hash.
RegisterFind(s) ==
    /\ reqs[s].op = "POST /api/auth/register" /\ reqs[s].pc = "find"
    /\ LET r == reqs[s]
       IN  Step(s, "RegisterFind", IF FindUserByEmail(r.body.email) # NoUser
                   THEN Respond(r, Error(409, "USER_EXISTS", "register"))
                   ELSE [r EXCEPT !.pc = "write"], <<>>, NoToken)
    /\ UNCHANGED <<client, env, now, users, posts, nReq>>

\* await prisma.user.create({ data }), generateTokens and the 201; a create
\* that throws is answered by the handler's catch.
RegisterWrite(s) ==
    /\ reqs[s].op = "POST /api/auth/register" /\ reqs[s].pc = "write"
    /\ LET r      == reqs[s]
           user   == NewUser(r, NewUserId)
           tokens == generateTokens(user)
       IN  IF EmailTaken(r.body.email)
           THEN /\ Step(s, "RegisterWrite", Respond(r, Error(500, "REGISTRATION_ERROR", "register")), <<>>, NoToken)
                /\ users' = users
           ELSE /\ Step(s, "RegisterWrite", Respond(r, [Success(201, "register") EXCEPT
                                     !.user = SelectUser(user),
                                     !.accessToken = tokens.accessToken,
                                     !.refreshToken = tokens.refreshToken]), <<>>, NoToken)
                /\ users' = (NewUserId :> user) @@ users
    /\ UNCHANGED <<client, env, now, posts, nReq>>

\* --------------------------------------------------------- the users router
\* POST /api/users up to its first query: the gate, requireAdmin and the
\* validators.
CreateUser(s, hdr, email, password, role) ==
    /\ Arrives(s)
    /\ LET r == Request("POST /api/users",
                        [EmptyBody EXCEPT !.email = NormalizeEmail(email), !.password = password,
                                          !.role = role])
           g == Gate(r, hdr)
       IN  Step(s, "CreateUser", IF g.pc = "done" THEN g
                   ELSE IF InvalidNewUser(email, password, role) # {}
                   THEN Respond(g, ValidationError("handler", InvalidNewUser(email, password, role)))
                   ELSE [g EXCEPT !.pc = "find"], hdr, NoToken)
    /\ nReq' = nReq + 1
    /\ UNCHANGED <<client, env, now, users, posts>>

\* const existingUser = await prisma.user.findUnique({ where: { email } }),
\* and then the await of bcrypt.hash.
CreateUserFind(s) ==
    /\ reqs[s].op = "POST /api/users" /\ reqs[s].pc = "find"
    /\ LET r == reqs[s]
       IN  Step(s, "CreateUserFind", IF FindUserByEmail(r.body.email) # NoUser
                   THEN Respond(r, Error(409, "USER_EXISTS", "handler"))
                   ELSE [r EXCEPT !.pc = "write"], <<>>, NoToken)
    /\ UNCHANGED <<client, env, now, users, posts, nReq>>

\* await prisma.user.create({ data }) and the 201; a create that throws is
\* answered by the handler's catch.
CreateUserWrite(s) ==
    /\ reqs[s].op = "POST /api/users" /\ reqs[s].pc = "write"
    /\ LET r    == reqs[s]
           user == NewUser(r, NewUserId)
       IN  IF EmailTaken(r.body.email)
           THEN /\ Step(s, "CreateUserWrite", Respond(r, Error(500, "CREATE_USER_ERROR", "handler")), <<>>, NoToken)
                /\ users' = users
           ELSE /\ Step(s, "CreateUserWrite", Respond(r, [Success(201, "handler") EXCEPT
                                     !.user = SelectUser(user)]), <<>>, NoToken)
                /\ users' = (NewUserId :> user) @@ users
    /\ UNCHANGED <<client, env, now, posts, nReq>>

\* PUT /api/users/:id up to its first query: the gate and the validators.
UpdateUser(s, hdr, id, role, isActive) ==
    /\ Arrives(s)
    /\ LET r == Request("PUT /api/users/:id",
                        [EmptyBody EXCEPT !.id = id, !.role = role, !.isActive = isActive])
           g == Gate(r, hdr)
       IN  Step(s, "UpdateUser", IF g.pc = "done" THEN g
                   ELSE IF role # Undefined /\ ~IsRole(role)
                   THEN Respond(g, ValidationError("handler", {"role"}))
                   ELSE [g EXCEPT !.pc = "find"], hdr, NoToken)
    /\ nReq' = nReq + 1
    /\ UNCHANGED <<client, env, now, users, posts>>

\* const existingUser = await prisma.user.findUnique({ where: { id } })
UpdateUserFind(s) ==
    /\ reqs[s].op = "PUT /api/users/:id" /\ reqs[s].pc = "find"
    /\ LET r == reqs[s]
       IN  Step(s, "UpdateUserFind", IF FindUserById(r.body.id) = NoUser
                   THEN Respond(r, Error(404, "USER_NOT_FOUND", "handler"))
                   ELSE [r EXCEPT !.pc = "write"], <<>>, NoToken)
    /\ UNCHANGED <<client, env, now, users, posts, nReq>>

\* await prisma.user.update({ where: { id }, data }): it throws when the row
\* is gone, which the handler's catch answers with 500.
UpdateUserWrite(s) ==
    /\ reqs[s].op = "PUT /api/users/:id" /\ reqs[s].pc = "write"
    /\ LET r   == reqs[s]
           old == FindUserById(r.body.id)
           new == [old EXCEPT
                      !.role = IF r.body.role # Undefined THEN r.body.role ELSE @,
                      !.isActive = IF r.body.isActive # Undefined THEN r.body.isActive = "true" ELSE @]
       IN  IF old = NoUser
           THEN /\ Step(s, "UpdateUserWrite", Respond(r, Error(500, "UPDATE_USER_ERROR", "handler")), <<>>, NoToken)
                /\ users' = users
           ELSE /\ Step(s, "UpdateUserWrite", Respond(r, [Success(200, "handler") EXCEPT !.user = SelectUser(new)]), <<>>, NoToken)
                /\ users' = [users EXCEPT ![r.body.id] = new]
    /\ UNCHANGED <<client, env, now, posts, nReq>>

\* DELETE /api/users/:id up to its first query.
DeleteUser(s, hdr, id) ==
    /\ Arrives(s)
    /\ LET g == Gate(Request("DELETE /api/users/:id", [EmptyBody EXCEPT !.id = id]), hdr)
       IN  Step(s, "DeleteUser", IF g.pc = "done" THEN g ELSE [g EXCEPT !.pc = "find"], hdr, NoToken)
    /\ nReq' = nReq + 1
    /\ UNCHANGED <<client, env, now, users, posts>>

\* The existence check and the check that an admin does not delete itself.
DeleteUserFind(s) ==
    /\ reqs[s].op = "DELETE /api/users/:id" /\ reqs[s].pc = "find"
    /\ LET r == reqs[s]
       IN  Step(s, "DeleteUserFind", IF FindUserById(r.body.id) = NoUser
                   THEN Respond(r, Error(404, "USER_NOT_FOUND", "handler"))
                   ELSE IF r.body.id = r.user.id
                   THEN Respond(r, Error(400, "CANNOT_DELETE_SELF", "handler"))
                   ELSE [r EXCEPT !.pc = "write"], <<>>, NoToken)
    /\ UNCHANGED <<client, env, now, users, posts, nReq>>

\* await prisma.user.delete({ where: { id } })
DeleteUserWrite(s) ==
    /\ reqs[s].op = "DELETE /api/users/:id" /\ reqs[s].pc = "write"
    /\ LET r == reqs[s]
       IN  IF FindUserById(r.body.id) = NoUser
           THEN /\ Step(s, "DeleteUserWrite", Respond(r, Error(500, "DELETE_USER_ERROR", "handler")), <<>>, NoToken)
                /\ users' = users
           ELSE /\ Step(s, "DeleteUserWrite", Respond(r, Success(200, "handler")), <<>>, NoToken)
                /\ users' = [users EXCEPT ![r.body.id] = NoUser]
    /\ UNCHANGED <<client, env, now, posts, nReq>>

\* --------------------------------------------------------- the posts router
\* Strings that are searched are sequences of characters.  `contains` with
\* mode 'insensitive' compares the lower-cased strings.
Lower(c) == CASE c = "G" -> "g" [] c = "H" -> "h" [] c = "S" -> "s" [] c = "O" -> "o" [] OTHER -> c
LowerStr(str) == [i \in 1..Len(str) |-> Lower(str[i])]
Contains(hay, needle) ==
    \E i \in 1..(Len(hay) - Len(needle) + 1) : SubSeq(hay, i, i + Len(needle) - 1) = needle
ContainsInsensitive(hay, needle) == Contains(LowerStr(hay), LowerStr(needle))

\* The where clause GET /api/posts builds from req.user and the query.
ListWhere(user, status, search) ==
    LET byRole == IF user.role = "MEMBER" THEN "PUBLISHED" ELSE Undefined
    IN  [status |-> IF status # Undefined THEN status ELSE byRole, search |-> search]

Matches(post, where) ==
    /\ where.status # Undefined => post.status = where.status
    /\ where.search # <<>> =>
          \/ ContainsInsensitive(post.title, where.search)
          \/ ContainsInsensitive(post.content, where.search)

\* prisma.post.findMany({ where, orderBy: { createdAt: 'desc' } }) over the i
\* oldest rows: the matching rows, newest first, as { id, status }.
RECURSIVE FindMany(_, _)
FindMany(where, i) ==
    IF i = 0 THEN <<>>
    ELSE LET post == posts[PostOrder[i]]
         IN  (IF post \notin {NoPost, Deleted} /\ Matches(post, where)
              THEN <<[id |-> post.id, status |-> post.status]>> ELSE <<>>)
             \o FindMany(where, i - 1)

\* skip and take
Page(rows, skip, take) ==
    SubSeq(rows, skip + 1, IF skip + take < Len(rows) THEN skip + take ELSE Len(rows))

\* GET /api/posts up to its query: the gate and the validators.  A page or a
\* limit the query does not carry is 0 here.
ListPosts(s, hdr, page, limit, status, search) ==
    /\ Arrives(s)
    /\ LET r == Request("GET /api/posts",
                        [EmptyBody EXCEPT !.page = page, !.limit = limit,
                                          !.status = status, !.search = search])
           g == Gate(r, hdr)
       IN  Step(s, "ListPosts", IF g.pc = "done" THEN g
                   ELSE IF limit > 100 \/ status \notin PostStatuses \cup {Undefined}
                   THEN Respond(g, Error(400, "VALIDATION_ERROR", "handler"))
                   ELSE [g EXCEPT !.pc = "find"], hdr, NoToken)
    /\ nReq' = nReq + 1
    /\ UNCHANGED <<client, env, now, users, posts>>

\* await Promise.all([findMany, count]) and the response.
ListPostsFind(s) ==
    /\ reqs[s].op = "GET /api/posts" /\ reqs[s].pc = "find"
    /\ LET r     == reqs[s]
           page  == IF r.body.page = 0 THEN 1 ELSE r.body.page
           limit == IF r.body.limit = 0 THEN 10 ELSE r.body.limit
           skip  == (page - 1) * limit
           where == ListWhere(r.user, r.body.status, r.body.search)
           rows  == FindMany(where, Len(PostOrder))
       IN  Step(s, "ListPostsFind", Respond(r, [Success(200, "handler") EXCEPT !.posts = Page(rows, skip, limit)]), <<>>, NoToken)
    /\ UNCHANGED <<client, env, now, users, posts, nReq>>

\* Posts the clients of this model create: one new row at most.
NewPostIds == PostIds \ SeededPostIds
CreatesInFlight == {s \in Slots : reqs[s].op = "POST /api/posts"}

\* POST /api/posts up to its query: the gate and the validators.
CreatePost(s, hdr, title, content, status, authorId) ==
    /\ Arrives(s)
    /\ Cardinality(CreatesInFlight) + Cardinality({id \in NewPostIds : posts[id] # NoPost})
          < Cardinality(NewPostIds)
    /\ LET r == Request("POST /api/posts",
                        [EmptyBody EXCEPT !.title = title, !.content = content, !.status = status,
                                          !.authorId = authorId])
           g == Gate(r, hdr)
       IN  Step(s, "CreatePost", IF g.pc = "done" THEN g
                   ELSE IF \/ Len(title) < 1 \/ Len(title) > 200 \/ Len(content) < 1
                           \/ status \notin PostStatuses \cup {Undefined}
                   THEN Respond(g, Error(400, "VALIDATION_ERROR", "handler"))
                   ELSE [g EXCEPT !.pc = "write"], hdr, NoToken)
    /\ nReq' = nReq + 1
    /\ UNCHANGED <<client, env, now, users, posts>>

\* A create that takes the author from the body when the body names one.
NewPostFromBody(r, id) ==
    [id |-> id,
     status |-> IF r.body.status = Undefined THEN "DRAFT" ELSE r.body.status,
     authorId |-> IF r.body.authorId # Undefined THEN r.body.authorId ELSE r.user.id,
     createdById |-> r.user.id,
     title |-> r.body.title, content |-> r.body.content]

\* The data of prisma.post.create: title, content, status = 'DRAFT' by
\* default, authorId and createdById from req.user.
NewPost(r, id) ==
    [id |-> id,
     status |-> IF r.body.status = Undefined THEN "DRAFT" ELSE r.body.status,
     authorId |-> r.user.id, createdById |-> r.user.id,
     title |-> r.body.title, content |-> r.body.content]

\* await prisma.post.create({ data })
CreatePostWrite(s) ==
    /\ reqs[s].op = "POST /api/posts" /\ reqs[s].pc = "write"
    /\ LET r    == reqs[s]
           id   == CHOOSE i \in NewPostIds : posts[i] = NoPost
           post == NewPost(r, id)
       IN  /\ Step(s, "CreatePostWrite", Respond(r, [Success(201, "handler") EXCEPT
                                     !.posts = <<[id |-> post.id, status |-> post.status]>>]),
                   <<>>, NoToken)
           /\ posts' = [posts EXCEPT ![id] = post]
    /\ UNCHANGED <<client, env, now, users, nReq>>

\* A field of a PUT body that the request does not carry.
Absent == <<Undefined>>

\* PUT /api/posts/:id up to its first query: the gate, requireStaff and the
\* validators.
UpdatePost(s, hdr, id, title, content, status) ==
    /\ Arrives(s)
    /\ LET r == Request("PUT /api/posts/:id",
                        [EmptyBody EXCEPT !.id = id, !.title = title, !.content = content,
                                          !.status = status])
           g == Gate(r, hdr)
       IN  Step(s, "UpdatePost", IF g.pc = "done" THEN g
                   ELSE IF \/ (title # Absent /\ (Len(title) < 1 \/ Len(title) > 200))
                           \/ (content # Absent /\ Len(content) < 1)
                           \/ status \notin PostStatuses \cup {Undefined}
                   THEN Respond(g, Error(400, "VALIDATION_ERROR", "handler"))
                   ELSE [g EXCEPT !.pc = "find"], hdr, NoToken)
    /\ nReq' = nReq + 1
    /\ UNCHANGED <<client, env, now, users, posts>>

\* prisma.post.findUnique({ where: { id } }): null for an id that was never
\* given out and for a deleted row.
FindPostById(id) == IF id \in DOMAIN posts /\ posts[id] # Deleted THEN posts[id] ELSE NoPost

\* An ownership check that lets every STAFF user through.
NoOwnershipCheck(user, existingPost) == FALSE

\* req.user?.role === 'STAFF' && existingPost.authorId !== req.user.id
NotOwnPost(user, existingPost) == user.role = "STAFF" /\ existingPost.authorId # user.id

\* const existingPost = await prisma.post.findUnique(..), the 404 and the
\* ownership check on the row that was read.
UpdatePostFind(s) ==
    /\ reqs[s].op = "PUT /api/posts/:id" /\ reqs[s].pc = "find"
    /\ LET r            == reqs[s]
           existingPost == FindPostById(r.body.id)
       IN  Step(s, "UpdatePostFind", IF existingPost = NoPost
                   THEN Respond(r, Error(404, "POST_NOT_FOUND", "handler"))
                   ELSE IF NotOwnPost(r.user, existingPost)
                   THEN Respond(r, Error(403, "INSUFFICIENT_PERMISSIONS", "handler"))
                   ELSE [r EXCEPT !.pc = "write"], <<>>, NoToken)
    /\ UNCHANGED <<client, env, now, users, posts, nReq>>

\* await prisma.post.update({ where: { id }, data }): only the fields the
\* body carries are written; it throws when the row is gone (500).
UpdatePostWrite(s) ==
    /\ reqs[s].op = "PUT /api/posts/:id" /\ reqs[s].pc = "write"
    /\ LET r   == reqs[s]
           old == FindPostById(r.body.id)
           new == [old EXCEPT
                      !.title = IF r.body.title # Absent THEN r.body.title ELSE @,
                      !.content = IF r.body.content # Absent THEN r.body.content ELSE @,
                      !.status = IF r.body.status # Undefined THEN r.body.status ELSE @]
       IN  IF old = NoPost
           THEN /\ Step(s, "UpdatePostWrite", Respond(r, Error(500, "UPDATE_POST_ERROR", "handler")), <<>>, NoToken)
                /\ posts' = posts
           ELSE /\ Step(s, "UpdatePostWrite", Respond(r, [Success(200, "handler") EXCEPT
                                     !.posts = <<[id |-> new.id, status |-> new.status]>>]),
                        <<>>, NoToken)
                /\ posts' = [posts EXCEPT ![r.body.id] = new]
    /\ UNCHANGED <<client, env, now, users, nReq>>

\* DELETE /api/posts/:id up to its first query: the gate and requireAdmin.
DeletePost(s, hdr, id) ==
    /\ Arrives(s)
    /\ LET g == Gate(Request("DELETE /api/posts/:id", [EmptyBody EXCEPT !.id = id]), hdr)
       IN  Step(s, "DeletePost", IF g.pc = "done" THEN g ELSE [g EXCEPT !.pc = "find"], hdr, NoToken)
    /\ nReq' = nReq + 1
    /\ UNCHANGED <<client, env, now, users, posts>>

\* const existingPost = await prisma.post.findUnique({ where: { id } })
DeletePostFind(s) ==
    /\ reqs[s].op = "DELETE /api/posts/:id" /\ reqs[s].pc = "find"
    /\ LET r == reqs[s]
       IN  Step(s, "DeletePostFind", IF FindPostById(r.body.id) = NoPost
                   THEN Respond(r, Error(404, "POST_NOT_FOUND", "handler"))
                   ELSE [r EXCEPT !.pc = "write"], <<>>, NoToken)
    /\ UNCHANGED <<client, env, now, users, posts, nReq>>

\* await prisma.post.delete({ where: { id } }): it throws when the row is
\* gone (500).
DeletePostWrite(s) ==
    /\ reqs[s].op = "DELETE /api/posts/:id" /\ reqs[s].pc = "write"
    /\ LET r == reqs[s]
       IN  IF FindPostById(r.body.id) = NoPost
           THEN /\ Step(s, "DeletePostWrite", Respond(r, Error(500, "DELETE_POST_ERROR", "handler")), <<>>, NoToken)
                /\ posts' = posts
           ELSE /\ Step(s, "DeletePostWrite", Respond(r, Success(200, "handler")), <<>>, NoToken)
                /\ posts' = [posts EXCEPT ![r.body.id] = Deleted]
    /\ UNCHANGED <<client, env, now, users, nReq>>

\* --------------------------------------------------------------- the clients
\* A token signed by somebody who does not hold the server's secrets.
Forged == {Part("jwt", "attacker-secret", "u_admin", "admin@site.local", "ADMIN", 0, e) :
              e \in {0, MaxClock + 2}}
TokenInputs == issued \cup Forged \cup {Malformed}
\* Authorization headers: none, the scheme alone, a token alone, both.
HeaderInputs == {<<>>, <<Bearer>>, <<Malformed>>} \cup {<<Bearer, t>> : t \in TokenInputs}
EmailInputs == {"admin@site.local", "Member@Example.com", "nobody@example.com", "not-an-email"}
PasswordInputs == {"Admin@12345", "password123", "short"}
\* The bodies of PUT /api/users/:id: <<role, isActive>>.
UpdateInputs == {<<"STAFF", Undefined>>, <<"ADMIN", Undefined>>, <<"SUPERUSER", Undefined>>,
                 <<Undefined, "false">>, <<Undefined, "true">>}
TargetInputs == {"u_member", "u_none"}
\* The queries of GET /api/posts: <<page, limit, status, search>>.
ListInputs == {<<0, 0, Undefined, <<>> >>, <<0, 0, "DRAFT", <<>> >>, <<0, 0, "PUBLISHED", <<>> >>,
               <<0, 0, "ARCHIVED", <<"g">> >>, <<2, 1, Undefined, <<"O">> >>,
               <<0, 101, Undefined, <<>> >>, <<0, 0, "BOGUS", <<>> >>}

\* The posts PUT and DELETE /api/posts/:id name: a seeded draft of the admin,
\* the post the clients create, a post that does not exist.
PostTargets == {"p3", "p4", "p_none"}
\* The bodies of PUT /api/posts/:id: <<title, content, status>>.
PostUpdateInputs == {<<Absent, Absent, "PUBLISHED">>, <<<<"N", "u">>, Absent, Undefined>>,
                     <<<<>>, Absent, Undefined>>, <<Absent, Absent, "BOGUS">>}

\* ---------------------------------------------------------------- the browser
\* TokenManager.isTokenExpired: payload.exp * 1000 < Date.now(); a string
\* that does not parse counts as expired.
isTokenExpired(token) == IF token.kind # "jwt" THEN TRUE ELSE token.exp < now

\* One call of HttpClient.makeRequest: where it stands (pc), the access token
\* it read from localStorage when it started (accessToken) and the Date.now()
\* it compared that token's exp with (at), the token of its
\* Authorization header (NoToken = no header), the refresh token that
\* refreshAccessToken read, the first response (data) and the value returned
\* (result); fetches and refreshes count the requests it has sent for the
\* endpoint and to /auth/refresh, refreshed is what refreshAccessToken returned.
NoCall == [pc |-> "idle", endpoint |-> "", accessToken |-> NoToken, at |-> 0,
           token |-> NoToken, refreshToken |-> NoToken,
           data |-> NoResp, result |-> NoResp, fetches |-> 0, refreshes |-> 0,
           refreshed |-> "none"]

\* AuthManager.state as the class initialises it; null is NoUser for user
\* and "null" for error.
InitialState == [user |-> NoUser, isAuthenticated |-> FALSE, isLoading |-> FALSE, error |-> "null"]
\* One run of initializeAuth, login, register or logout: where it stands
\* (pc), the arguments of the call, the tokens initializeAuth read, and what
\* the run returned.
NoRun == [pc |-> "idle", email |-> Undefined, password |-> Undefined, role |-> Undefined,
          accessToken |-> NoToken, refreshToken |-> NoToken, at |-> 0, result |-> "none"]
\* The page before its script has run: no AuthManager yet.
NoManager ==
    [state |-> InitialState, listeners |-> <<>>,
     initializeAuth |-> [NoRun EXCEPT !.pc = "unloaded"], login |-> NoRun,
     register |-> NoRun, logout |-> NoRun,
     notified |-> [before |-> <<>>, called |-> <<>>], unsubscribed |-> {}]

\* localStorage after the member has logged in at time 0, no call, and the
\* page not yet loaded.
ClientInit ==
    [storage |-> generateTokens(SeedUsers["u_member"]), call |-> NoCall, auth |-> NoManager]

NETWORK_ERROR == [NoResp EXCEPT !.code = "NETWORK_ERROR", !.by = "makeRequest"]

\* A logout that marks the user of the bearer token as inactive.
LogoutDeactivates(table, token) ==
    IF token.kind = "jwt" /\ token.userId \in DOMAIN table /\ table[token.userId] # NoUser
    THEN [table EXCEPT ![token.userId].isActive = FALSE]
    ELSE table

\* POST /api/auth/logout: the user table after the handler, which reads and
\* writes nothing, and its response.
Logout(table, token) == table
LogoutResponse == Success(200, "logout")

\* What the server answers to a fetch of the endpoint with this bearer token:
\* the logout route's response, the gate's refusal, or the handler's success.
ServerResponse(endpoint, token) ==
    LET hdr == IF token = NoToken THEN <<>> ELSE <<Bearer, token>>
        g   == Gate(Request(endpoint, EmptyBody), hdr)
    IN  IF endpoint = "POST /api/auth/logout" THEN LogoutResponse
        ELSE IF g.pc = "done" THEN g.resp
        ELSE Success(200, "handler")

\* A step of the browser: localStorage and the call change, the server's
\* tables do not.
ClientStep(storage, call, minted) ==
    /\ client' = [client EXCEPT !.storage = storage, !.call = call]
    /\ issued' = issued \cup minted
    /\ last' = NoStep
    /\ UNCHANGED <<env, now, users, posts, reqs>>

\* makeRequest up to its first await: the header carries the stored access
\* token when there is one that is not expired by the browser's clock.
MakeRequest(endpoint) ==
    /\ client.call.pc \in {"idle", "done"}
    /\ nReq < MaxRequests
    /\ LET accessToken == client.storage.accessToken
       IN  ClientStep(client.storage,
                      [NoCall EXCEPT !.pc = "fetch", !.endpoint = endpoint, !.fetches = 1,
                          !.accessToken = accessToken, !.at = now,
                          !.token = IF accessToken # NoToken /\ ~isTokenExpired(accessToken)
                                    THEN accessToken ELSE NoToken], {})
    /\ nReq' = nReq + 1

\* refreshAccessToken up to its await: false without a stored refresh token,
\* else the request to /auth/refresh is sent.
StartRefresh(call) ==
    IF client.storage.refreshToken = NoToken
    THEN [call EXCEPT !.pc = "done", !.result = call.data, !.refreshed = "false"]
    ELSE [call EXCEPT !.pc = "refresh", !.refreshToken = client.storage.refreshToken,
                      !.refreshes = @ + 1]

\* The first response arrives: a 401 TOKEN_EXPIRED starts the refresh, any
\* other response is returned.
FetchDone ==
    /\ client.call.pc = "fetch"
    /\ LET data == ServerResponse(client.call.endpoint, client.call.token)
           call == [client.call EXCEPT !.data = data]
       IN  client' = [client EXCEPT
                         !.call = IF data.status = 401 /\ data.code = "TOKEN_EXPIRED"
                                  THEN StartRefresh(call)
                                  ELSE [call EXCEPT !.pc = "done", !.result = data]]
    /\ users' = IF client.call.endpoint = "POST /api/auth/logout"
                THEN Logout(users, client.call.token) ELSE users
    /\ last' = NoStep
    /\ UNCHANGED <<env, now, posts, issued, reqs, nReq>>

\* The response of /auth/refresh arrives: on success the new access token is
\* stored with the refresh token that was sent, and refreshAccessToken
\* resolves to true; otherwise to false, and makeRequest returns data.
RefreshDone ==
    /\ client.call.pc = "refresh"
    /\ LET resp == RefreshResponse(client.call.refreshToken)
       IN  IF resp.code = "success" /\ resp.accessToken # NoToken
           THEN ClientStep([accessToken |-> resp.accessToken,
                            refreshToken |-> client.call.refreshToken],
                           [client.call EXCEPT !.pc = "refreshed", !.refreshed = "true"],
                           {resp.accessToken})
           ELSE ClientStep(client.storage,
                           [client.call EXCEPT !.pc = "done", !.result = client.call.data,
                                               !.refreshed = "false"], {})
    /\ UNCHANGED nReq

\* makeRequest resumes after refreshAccessToken returned true: it reads the
\* stored access token and retries with it, or returns data without one.
Resume ==
    /\ client.call.pc = "refreshed"
    /\ LET newAccessToken == client.storage.accessToken
       IN  ClientStep(client.storage,
                      IF newAccessToken # NoToken
                      THEN [client.call EXCEPT !.pc = "retry", !.token = newAccessToken,
                                               !.fetches = @ + 1]
                      ELSE [client.call EXCEPT !.pc = "done", !.result = client.call.data], {})
    /\ UNCHANGED nReq

\* A retry that goes through the whole of makeRequest again.
RetryRecursive ==
    /\ client.call.pc = "retry"
    /\ LET resp == ServerResponse(client.call.endpoint, client.call.token)
       IN  ClientStep(client.storage,
                      IF resp.status = 401 /\ resp.code = "TOKEN_EXPIRED"
                      THEN StartRefresh(client.call)
                      ELSE [client.call EXCEPT !.pc = "done", !.result = resp], {})
    /\ UNCHANGED nReq

\* The response of the retry arrives and is returned as it is.
RetryDone ==
    /\ client.call.pc = "retry"
    /\ ClientStep(client.storage,
                  [client.call EXCEPT !.pc = "done",
                      !.result = ServerResponse(client.call.endpoint, client.call.token)], {})
    /\ UNCHANGED nReq

\* A fetch rejects: the endpoint's fetch is caught by makeRequest, which
\* returns NETWORK_ERROR; the refresh's by refreshAccessToken, which returns
\* false.
FetchFails ==
    /\ client.call.pc \in {"fetch", "refresh", "retry"}
    /\ ClientStep(client.storage,
                  IF client.call.pc = "refresh"
                  THEN [client.call EXCEPT !.pc = "done", !.result = client.call.data, !.refreshed = "false"]
                  ELSE [client.call EXCEPT !.pc = "done", !.result = NETWORK_ERROR], {})
    /\ UNCHANGED nReq

\* TokenManager.clearTokens(), as authApi.logout calls it.
ClearTokens ==
    /\ client.storage # [accessToken |-> NoToken, refreshToken |-> NoToken]
    /\ ClientStep([accessToken |-> NoToken, refreshToken |-> NoToken], client.call, {})
    /\ UNCHANGED nReq

\* ------------------------------------------------------------ AuthManager
\* The browser's calls of /auth/login, /auth/register, /auth/logout and
\* /auth/me go through makeRequest; the auth router never answers
\* TOKEN_EXPIRED, so each is one fetch, which resolves with the server's
\* response or rejects (makeRequest then returns NETWORK_ERROR).  The server
\* handles such a request at the moment the fetch resolves.

\* The answer of POST /api/auth/login to these credentials.
LoginAnswer(email, password) ==
    LET user   == FindUserByEmail(NormalizeEmail(email))
        tokens == generateTokens(user)
    IN  IF ~IsEmail(email) \/ Len(password) < 6 THEN Error(400, "VALIDATION_ERROR", "login")
        ELSE IF user = NoUser THEN Error(401, "INVALID_CREDENTIALS", "login")
        ELSE IF ~user.isActive THEN Error(401, "ACCOUNT_INACTIVE", "login")
        ELSE IF ~BcryptCompare(password, user.password)
        THEN Error(401, "INVALID_CREDENTIALS", "login")
        ELSE [Success(200, "login") EXCEPT !.user = SelectUser(user),
                 !.accessToken = tokens.accessToken, !.refreshToken = tokens.refreshToken]

\* The answer of POST /api/auth/register to this body.
RegisterAnswer(email, password, role) ==
    LET r      == Request("POST /api/auth/register",
                          [EmptyBody EXCEPT !.email = NormalizeEmail(email),
                                            !.password = password, !.role = role])
        user   == NewUser(r, NewUserId)
        tokens == generateTokens(user)
    IN  IF InvalidNewUser(email, password, role) # {}
        THEN ValidationError("register", InvalidNewUser(email, password, role))
        ELSE IF EmailTaken(r.body.email) THEN Error(409, "USER_EXISTS", "register")
        ELSE [Success(201, "register") EXCEPT !.user = SelectUser(user),
                 !.accessToken = tokens.accessToken, !.refreshToken = tokens.refreshToken]

\* A listener that calls its own unsubscribe function when it is called.
Unsubscribes(l) == l = "once"
\* The unsubscribe function of l: splice(indexOf(l), 1) when l is in the array.
Splice(list, l) ==
    IF \A i \in 1..Len(list) : list[i] # l THEN list
    ELSE LET index == CHOOSE i \in 1..Len(list) :
                          list[i] = l /\ \A j \in 1..(i - 1) : list[j] # l
         IN  SubSeq(list, 1, index - 1) \o SubSeq(list, index + 1, Len(list))

\* this.listeners.forEach(listener => listener(this.state)): k runs over the
\* indices the array had when forEach started (len); an index the array no
\* longer has is skipped; the listener called may splice itself out.
RECURSIVE ForEach(_, _, _, _)
ForEach(list, k, len, called) ==
    IF k > len THEN [listeners |-> list, called |-> called]
    ELSE IF k > Len(list) THEN ForEach(list, k + 1, len, called)
    ELSE ForEach(IF Unsubscribes(list[k]) THEN Splice(list, list[k]) ELSE list,
                 k + 1, len, Append(called, list[k]))

\* A setState that turns isAuthenticated off and leaves user as it is.
setStateKeepingUser(auth, state) ==
    LET n == ForEach(auth.listeners, 1, Len(auth.listeners), <<>>)
    IN  [auth EXCEPT !.state = IF state.isAuthenticated THEN state
                               ELSE [state EXCEPT !.user = auth.state.user],
                     !.listeners = n.listeners,
                     !.notified = [before |-> auth.listeners, called |-> n.called],
                     !.unsubscribed = @ \cup {l \in {n.called[i] : i \in 1..Len(n.called)} :
                                                Unsubscribes(l)}]

\* setState: the state is replaced by the merged state and every listener
\* is called; notified keeps the array as it was before and the listeners
\* that were called.
setState(auth, state) ==
    LET n == ForEach(auth.listeners, 1, Len(auth.listeners), <<>>)
    IN  [auth EXCEPT !.state = state,
                     !.listeners = n.listeners,
                     !.notified = [before |-> auth.listeners, called |-> n.called],
                     !.unsubscribed = @ \cup {l \in {n.called[i] : i \in 1..Len(n.called)} :
                                                Unsubscribes(l)}]

NoTokens == [accessToken |-> NoToken, refreshToken |-> NoToken]
LoggedOutState == [user |-> NoUser, isAuthenticated |-> FALSE, isLoading |-> FALSE, error |-> "null"]

\* A step of AuthManager: its fields and localStorage change.
AuthStep(auth, storage, minted) ==
    /\ client' = [client EXCEPT !.auth = auth, !.storage = storage]
    /\ issued' = issued \cup minted
    /\ last' = NoStep
    /\ UNCHANGED <<env, now, posts, reqs>>

Constructed == client.auth.initializeAuth.pc # "unloaded"

\* new AuthManager(): initializeAuth up to its first await.
NewAuthManager ==
    /\ ~Constructed
    /\ LET accessToken  == client.storage.accessToken
           refreshToken == client.storage.refreshToken
           loading      == setState(client.auth, [client.auth.state EXCEPT !.isLoading = TRUE])
           run          == [NoRun EXCEPT !.accessToken = accessToken,
                                         !.refreshToken = refreshToken, !.at = now]
       IN  IF accessToken = NoToken \/ refreshToken = NoToken
           THEN AuthStep([setState(loading, [loading.state EXCEPT !.isLoading = FALSE,
                                       !.isAuthenticated = FALSE, !.user = NoUser])
                             EXCEPT !.initializeAuth = [run EXCEPT !.pc = "done", !.result = "no tokens"]],
                         client.storage, {})
           ELSE IF isTokenExpired(accessToken)
           THEN AuthStep([loading EXCEPT !.initializeAuth = [run EXCEPT !.pc = "logout"]],
                         client.storage, {})
           ELSE AuthStep([loading EXCEPT !.initializeAuth = [run EXCEPT !.pc = "me"]],
                         client.storage, {})
    /\ UNCHANGED <<users, nReq>>

\* The bearer token makeRequest sends now.
SentToken ==
    IF client.storage.accessToken # NoToken /\ ~isTokenExpired(client.storage.accessToken)
    THEN client.storage.accessToken ELSE NoToken

\* initializeAuth after 'await authApi.logout()' (the branch of an expired
\* access token): authApi.logout has cleared the tokens whatever the
\* response was, and the state is set to logged out.
InitLogoutSettles(ok) ==
    /\ client.auth.initializeAuth.pc = "logout"
    /\ AuthStep([setState(client.auth, [client.auth.state EXCEPT !.isLoading = FALSE,
                                !.isAuthenticated = FALSE, !.user = NoUser])
                    EXCEPT !.initializeAuth.pc = "done", !.initializeAuth.result = "logged out"],
                NoTokens, {})
    /\ users' = IF ok THEN Logout(users, SentToken) ELSE users
    /\ UNCHANGED nReq

\* initializeAuth after 'await authApi.getCurrentUser()'.
InitMeSettles(ok) ==
    /\ client.auth.initializeAuth.pc = "me"
    /\ LET hdr      == IF SentToken = NoToken THEN <<>> ELSE <<Bearer, SentToken>>
           response == IF ok THEN MeResponse(AuthRouterMiddleware(
                                       Request("GET /api/auth/me", EmptyBody), hdr))
                       ELSE NETWORK_ERROR
       IN  IF response.code = "success" /\ response.user # NoUser
           THEN AuthStep([setState(client.auth, [user |-> response.user, isAuthenticated |-> TRUE,
                                                 isLoading |-> FALSE, error |-> "null"])
                             EXCEPT !.initializeAuth.pc = "done", !.initializeAuth.result = "success"],
                         client.storage, {})
           ELSE AuthStep([setState(client.auth, [user |-> NoUser, isAuthenticated |-> FALSE,
                                                 isLoading |-> FALSE, error |-> response.code])
                             EXCEPT !.initializeAuth.pc = "done", !.initializeAuth.result = "failure"],
                         client.storage, {})
    /\ UNCHANGED <<users, nReq>>

\* AuthManager.login up to its await.
AuthLogin(email, password) ==
    /\ Constructed /\ client.auth.login.pc = "idle" /\ nReq < MaxRequests
    /\ AuthStep([setState(client.auth, [client.auth.state EXCEPT !.isLoading = TRUE, !.error = "null"])
                    EXCEPT !.login = [NoRun EXCEPT !.pc = "fetch", !.email = email,
                                                    !.password = password]],
                client.storage, {})
    /\ nReq' = nReq + 1
    /\ UNCHANGED users

\* AuthManager.login after 'await authApi.login(credentials)'.
AuthLoginSettles(ok) ==
    /\ client.auth.login.pc = "fetch"
    /\ LET run      == client.auth.login
           response == IF ok THEN LoginAnswer(run.email, run.password) ELSE NETWORK_ERROR
       IN  IF response.code = "success"
           THEN AuthStep([setState(client.auth, [user |-> response.user, isAuthenticated |-> TRUE,
                                                 isLoading |-> FALSE, error |-> "null"])
                             EXCEPT !.login = [NoRun EXCEPT !.email = run.email, !.result = "success"]],
                         [accessToken |-> response.accessToken,
                          refreshToken |-> response.refreshToken], TokensOf(response))
           ELSE AuthStep([setState(client.auth, [client.auth.state EXCEPT !.isLoading = FALSE,
                                                     !.error = response.code])
                             EXCEPT !.login = [NoRun EXCEPT !.email = run.email, !.result = "failure"]],
                         client.storage, {})
    /\ UNCHANGED <<users, nReq>>

\* AuthManager.register up to its await.
AuthRegister(email, password, role) ==
    /\ Constructed /\ client.auth.register.pc = "idle" /\ nReq < MaxRequests
    /\ AuthStep([setState(client.auth, [client.auth.state EXCEPT !.isLoading = TRUE, !.error = "null"])
                    EXCEPT !.register = [NoRun EXCEPT !.pc = "fetch", !.email = email,
                                                       !.password = password, !.role = role]],
                client.storage, {})
    /\ nReq' = nReq + 1
    /\ UNCHANGED users

\* AuthManager.register after 'await authApi.register(userData)'.
AuthRegisterSettles(ok) ==
    /\ client.auth.register.pc = "fetch"
    /\ LET run      == client.auth.register
           response == IF ok THEN RegisterAnswer(run.email, run.password, run.role)
                       ELSE NETWORK_ERROR
       IN  IF response.code = "success"
           THEN /\ AuthStep([setState(client.auth, [user |-> response.user, isAuthenticated |-> TRUE,
                                                    isLoading |-> FALSE, error |-> "null"])
                                EXCEPT !.register = [NoRun EXCEPT !.email = run.email, !.result = "success"]],
                            [accessToken |-> response.accessToken,
                             refreshToken |-> response.refreshToken], TokensOf(response))
                /\ users' = (NewUserId :> [response.user EXCEPT
                                              !.password = BcryptHash(run.password)]) @@ users
           ELSE /\ AuthStep([setState(client.auth, [client.auth.state EXCEPT !.isLoading = FALSE,
                                                        !.error = response.code])
                                EXCEPT !.register = [NoRun EXCEPT !.email = run.email, !.result = "failure"]],
                            client.storage, {})
                /\ users' = users
    /\ UNCHANGED nReq

\* AuthManager.logout up to its await.
AuthLogout ==
    /\ Constructed /\ client.auth.logout.pc = "idle" /\ nReq < MaxRequests
    /\ AuthStep([setState(client.auth, [client.auth.state EXCEPT !.isLoading = TRUE])
                    EXCEPT !.logout = [NoRun EXCEPT !.pc = "fetch"]],
                client.storage, {})
    /\ nReq' = nReq + 1
    /\ UNCHANGED users

\* A logout that clears and resets only when the request succeeded.
AuthLogoutSettlesOnSuccess(ok) ==
    /\ client.auth.logout.pc = "fetch"
    /\ IF ok
       THEN AuthStep([setState(client.auth, LoggedOutState)
                         EXCEPT !.logout = [NoRun EXCEPT !.result = "done"]], NoTokens, {})
       ELSE AuthStep([client.auth EXCEPT !.logout = [NoRun EXCEPT !.result = "done"]],
                     client.storage, {})
    /\ users' = IF ok THEN Logout(users, SentToken) ELSE users
    /\ UNCHANGED nReq

\* AuthManager.logout after 'await authApi.logout()': authApi.logout and the
\* finally block clear the tokens, and the state is reset.
AuthLogoutSettles(ok) ==
    /\ client.auth.logout.pc = "fetch"
    /\ AuthStep([setState(client.auth, LoggedOutState)
                    EXCEPT !.logout = [NoRun EXCEPT !.result = "done"]], NoTokens, {})
    /\ users' = IF ok THEN Logout(users, SentToken) ELSE users
    /\ UNCHANGED nReq

\* The listeners of this model; each is subscribed at most once at a time.
Listeners == {"first", "once", "last"}

\* authManager.subscribe(l)
Subscribe(l) ==
    /\ Constructed
    /\ \A i \in 1..Len(client.auth.listeners) : client.auth.listeners[i] # l
    /\ AuthStep([client.auth EXCEPT !.listeners = Append(@, l), !.unsubscribed = @ \ {l}],
                client.storage, {})
    /\ UNCHANGED <<users, nReq>>

\* A call of the function that subscribe(l) returned, by the listener's
\* owner: the first call, or a call after the listener has been removed.
Unsubscribe(l) ==
    /\ Constructed
    /\ \E i \in 1..Len(client.auth.listeners) : client.auth.listeners[i] = l
          \/ l \in client.auth.unsubscribed
    /\ AuthStep([client.auth EXCEPT !.listeners = Splice(@, l), !.unsubscribed = @ \cup {l}],
                client.storage, {})
    /\ UNCHANGED <<users, nReq>>

\* The sessions the model starts with: each seeded user has logged in once,
\* at time 0, and holds the token pair of that login.
SeedSessions == UNION {TokensOf([NoResp EXCEPT
                                   !.accessToken = generateTokens(SeedUsers[id]).accessToken,
                                   !.refreshToken = generateTokens(SeedUsers[id]).refreshToken]) :
                          id \in UserIds}

TypeOK ==
    /\ now \in 0..MaxClock
    /\ nReq \in 0..MaxRequests
    /\ UserIds \subseteq DOMAIN users
    /\ \A s \in Slots : reqs[s].pc \in {"idle", "compare", "find", "write"}
    /\ last.req.pc \in {"idle", "done", "compare", "find", "write"}

\* The state the model starts in: the environment e, the seeded database,
\* and the sessions of the seeded users.
InitWith(e) ==
    /\ env = e
    /\ now = 0
    /\ users = SeedUsers
    /\ posts = SeedPosts
    /\ issued = SeedSessions
    /\ reqs = [s \in Slots |-> Idle]
    /\ last = NoStep
    /\ nReq = 0
    /\ client = ClientInit

\* Neither secret is set: the server signs with its fallback secrets.
Init == InitWith([JWT_ACCESS_SECRET |-> "", JWT_REFRESH_SECRET |-> ""])

\* The configurations of the two secrets: unset, set to two values, set to
\* the same value.
Configurations ==
    {[JWT_ACCESS_SECRET |-> "", JWT_REFRESH_SECRET |-> ""],
     [JWT_ACCESS_SECRET |-> "secret-1", JWT_REFRESH_SECRET |-> "secret-2"],
     [JWT_ACCESS_SECRET |-> "secret-1", JWT_REFRESH_SECRET |-> "secret-1"]}
InitEnv == \E e \in Configurations : InitWith(e)

\* Time passes.
Tick ==
    /\ now < MaxClock
    /\ now' = now + 1
    /\ last' = NoStep
    /\ UNCHANGED <<client, env, users, posts, issued, reqs, nReq>>

Next ==
    \/ Tick
    \/ \E s \in Slots :
        \/ \E e \in EmailInputs, p \in PasswordInputs : Login(s, e, p)
        \/ LoginCompare(s)
        \/ \E t \in TokenInputs \cup {NoToken} : Refresh(s, t)
        \/ \E h \in HeaderInputs, id \in TargetInputs, b \in UpdateInputs :
              UpdateUser(s, h, id, b[1], b[2])
        \/ UpdateUserFind(s)
        \/ UpdateUserWrite(s)
        \/ \E h \in HeaderInputs, id \in TargetInputs \cup {"u_admin"} : DeleteUser(s, h, id)
        \/ DeleteUserFind(s)
        \/ DeleteUserWrite(s)
        \/ \E h \in HeaderInputs, q \in ListInputs : ListPosts(s, h, q[1], q[2], q[3], q[4])
        \/ ListPostsFind(s)
        \/ \E h \in HeaderInputs, title \in {<<>>, <<"G", "o">>},
              status \in {Undefined, "ARCHIVED", "BOGUS"} :
              CreatePost(s, h, title, <<"o", "k">>, status, Undefined)
        \/ CreatePostWrite(s)

Spec == Init /\ [][Next]_vars
\* The same server under every configuration of its secrets.
SpecEnv == InitEnv /\ [][Next]_vars

\* The posts router's writes, with the admin's user updates beside them.
NextPosts ==
    \/ Tick
    \/ \E s \in Slots :
        \/ \E h \in HeaderInputs, id \in TargetInputs, b \in UpdateInputs :
              UpdateUser(s, h, id, b[1], b[2])
        \/ UpdateUserFind(s)
        \/ UpdateUserWrite(s)
        \/ \E h \in HeaderInputs, status \in {Undefined, "PUBLISHED"},
              authorId \in {Undefined, "u_member"} :
              CreatePost(s, h, <<"G", "o">>, <<"o", "k">>, status, authorId)
        \/ CreatePostWrite(s)
        \/ \E h \in HeaderInputs, id \in PostTargets, b \in PostUpdateInputs :
              UpdatePost(s, h, id, b[1], b[2], b[3])
        \/ UpdatePostFind(s)
        \/ UpdatePostWrite(s)
        \/ \E h \in HeaderInputs, id \in PostTargets : DeletePost(s, h, id)
        \/ DeletePostFind(s)
        \/ DeletePostWrite(s)
SpecPosts == Init /\ [][NextPosts]_vars

\* The bodies of a register and of a create-user: <<email, password, role>>.
NewUserInputs ==
    {<<"new@example.com", "password123", "MEMBER">>, <<"new@example.com", "password123", "ADMIN">>,
     <<"Member@Example.com", "password123", "MEMBER">>, <<"new@example.com", "password123", "SUPERUSER">>,
     <<"new@example.com", "password123", Undefined>>, <<"new@example.com", "short", "STAFF">>,
     <<"not-an-email", "password123", "STAFF">>}
\* The headers of the admin's and of the staff user's session, and none.
UsersHeaders == {<<>>} \cup {<<Bearer, t>> : t \in {i \in issued : i.userId \in {"u_admin", "u_staff"}}}

\* The writes of the user table: register, and the admin's create and update.
NextUsers ==
    \/ Tick
    \/ \E s \in Slots :
        \/ \E b \in NewUserInputs : Register(s, b[1], b[2], b[3])
        \/ RegisterFind(s)
        \/ RegisterWrite(s)
        \/ \E h \in UsersHeaders, b \in NewUserInputs : CreateUser(s, h, b[1], b[2], b[3])
        \/ CreateUserFind(s)
        \/ CreateUserWrite(s)
        \/ \E h \in UsersHeaders, b \in UpdateInputs : UpdateUser(s, h, "u_member", b[1], b[2])
        \/ UpdateUserFind(s)
        \/ UpdateUserWrite(s)
SpecUsers == Init /\ [][NextUsers]_vars

\* The store after the admin has given the member the role ADMIN (a PUT
\* /api/users/:id with { role: 'ADMIN' }): two admins, each with the session
\* of its login.
InitTwoAdmins ==
    /\ env = [JWT_ACCESS_SECRET |-> "", JWT_REFRESH_SECRET |-> ""]
    /\ now = 0
    /\ users = [SeedUsers EXCEPT !["u_member"].role = "ADMIN"]
    /\ posts = SeedPosts
    /\ issued = SeedSessions
    /\ reqs = [s \in Slots |-> Idle]
    /\ last = NoStep
    /\ nReq = 0
    /\ client = ClientInit
\* The headers of the sessions of the two admins and of the staff user.
AdminsHeaders ==
    {<<Bearer, t>> : t \in {i \in issued : i.userId \in {"u_admin", "u_member", "u_staff"}}}

\* The two admins and the staff user deleting users.
NextAdmins ==
    \/ Tick
    \/ \E s \in Slots :
        \/ \E h \in AdminsHeaders, id \in {"u_admin", "u_member", "u_staff", "u_none"} :
              DeleteUser(s, h, id)
        \/ DeleteUserFind(s)
        \/ DeleteUserWrite(s)
SpecAdmins == InitTwoAdmins /\ [][NextAdmins]_vars

\* The credentials typed into the login form, and the register form's data.
Credentials == {<<"member@example.com", "password123">>, <<"member@example.com", "wrong-password">>}
RegisterData == {<<"new@example.com", "password123", "MEMBER">>,
                 <<"member@example.com", "password123", "MEMBER">>}

\* The page of the member: the AuthManager, the clock, and another tab that
\* clears localStorage.
NextAuth ==
    \/ Tick
    \/ ClearTokens
    \/ NewAuthManager
    \/ \E ok \in BOOLEAN : InitLogoutSettles(ok)
    \/ \E ok \in BOOLEAN : InitMeSettles(ok)
    \/ \E c \in Credentials : AuthLogin(c[1], c[2])
    \/ \E ok \in BOOLEAN : AuthLoginSettles(ok)
    \/ \E d \in RegisterData : AuthRegister(d[1], d[2], d[3])
    \/ \E ok \in BOOLEAN : AuthRegisterSettles(ok)
    \/ AuthLogout
    \/ \E ok \in BOOLEAN : AuthLogoutSettles(ok)
SpecAuth == Init /\ [][NextAuth]_vars
\* Every fetch settles.
SpecAuthFair ==
    /\ SpecAuth
    /\ WF_vars(\E ok \in BOOLEAN : InitLogoutSettles(ok))
    /\ WF_vars(\E ok \in BOOLEAN : InitMeSettles(ok))
    /\ WF_vars(\E ok \in BOOLEAN : AuthLoginSettles(ok))
    /\ WF_vars(\E ok \in BOOLEAN : AuthRegisterSettles(ok))
    /\ WF_vars(\E ok \in BOOLEAN : AuthLogoutSettles(ok))

\* The listeners of the AuthManager and the state changes of a login.
NextListeners ==
    \/ NewAuthManager
    \/ \E ok \in BOOLEAN : InitMeSettles(ok)
    \/ \E l \in Listeners : Subscribe(l)
    \/ \E l \in Listeners : Unsubscribe(l)
    \/ \E c \in Credentials : AuthLogin(c[1], c[2])
    \/ \E ok \in BOOLEAN : AuthLoginSettles(ok)
SpecListeners == Init /\ [][NextListeners]_vars

\* The headers of the admin's session.
AdminHeaders == {<<Bearer, t>> : t \in {i \in issued : i.userId = "u_admin"}}

\* The tokens of the member, which a second device may send as well.
MemberTokens == {i \in issued : i.userId = "u_member"}

\* The browser of the member, a second device that refreshes with the
\* member's tokens, the clock, and the admin updating the member.
NextClient ==
    \/ Tick
    \/ \E endpoint \in {"GET /api/posts", "POST /api/auth/logout"} : MakeRequest(endpoint)
    \/ FetchDone
    \/ RefreshDone
    \/ Resume
    \/ RetryDone
    \/ FetchFails
    \/ ClearTokens
    \/ \E s \in Slots :
        \/ \E t \in MemberTokens : Refresh(s, t)
        \/ \E t \in MemberTokens : ListPosts(s, <<Bearer, t>>, 0, 0, Undefined, <<>>)
        \/ ListPostsFind(s)
        \/ \E t \in MemberTokens : Me(s, <<Bearer, t>>)
        \/ \E h \in AdminHeaders, b \in UpdateInputs : UpdateUser(s, h, "u_member", b[1], b[2])
        \/ UpdateUserFind(s)
        \/ UpdateUserWrite(s)
SpecClient == Init /\ [][NextClient]_vars
\* Every fetch settles: it resolves or it rejects.
SpecClientFair ==
    /\ SpecClient
    /\ WF_vars(FetchDone) /\ WF_vars(RefreshDone) /\ WF_vars(Resume) /\ WF_vars(RetryDone)

\* ------------------------------------------------------------ the properties
\* The steps in which a request arrives at a gated route and authenticateToken
\* (and the route's role middleware) run.
GateActs == {"UpdateUser", "DeleteUser", "ListPosts", "CreatePost"}
AtGate == last.act \in GateActs
\* The bearer token of the request that has just arrived.
Presented == HeaderToken(last.hdr)
Count(seq, x) == Cardinality({i \in 1..Len(seq) : seq[i] = x})
\* t is a well-formed token signed with secret and not yet expired.
Valid(t, secret) == t.kind = "jwt" /\ t.key = secret /\ now < t.exp
\* The stored row of the user a token names (the store as the step read it:
\* no arrival step and no refresh writes a user row).
Stored(t) == FindUserById(t.userId)

\* C1: for every access token signed with the access secret, not expired,
\* whose userId names an existing user with isActive = true, authenticateToken
\* calls next exactly once with req.user set to the stored record whose id is
\* the token's userId, and sends no error response.
C1_GateResolvesStoredUser ==
    (AtGate /\ Valid(Presented, ACCESS_SECRET)
        /\ Stored(Presented) # NoUser /\ Stored(Presented).isActive)
    => /\ Count(last.req.next, "authenticateToken") = 1
       /\ last.req.user = SelectUser(users[Presented.userId])
       /\ last.req.user.id = Presented.userId
       /\ last.req.resp.by # "authenticateToken"

\* C1's case: the gate has let a request through whose token still carries
\* the role the user had at login, and req.user carries the stored role.
C1_Witness ==
    /\ AtGate /\ Valid(Presented, ACCESS_SECRET)
    /\ Stored(Presented) # NoUser /\ Stored(Presented).isActive
    /\ last.req.user.id = Presented.userId
    /\ last.req.user.role # Presented.role

\* The allow-list of each route that names a role middleware.
AllowList(op) == IF op \in {"POST /api/posts", "PUT /api/posts/:id"} THEN {"ADMIN", "STAFF"}
                 ELSE {"ADMIN"}

\* C2: requireRole is an exact membership test with no hierarchy: for an
\* authenticated request it calls next iff req.user.role is in the route's
\* allow-list ({ADMIN, STAFF} for requireStaff, {ADMIN} for requireAdmin), and
\* otherwise answers 403 INSUFFICIENT_PERMISSIONS.
C2_ExactRoleMembership ==
    (AtGate /\ last.req.user # NoUser
        /\ last.req.op \notin {"GET /api/posts", "GET /api/posts/:id"})
    => IF last.req.user.role \in AllowList(last.req.op)
       THEN /\ Count(last.req.next, "requireRole") = 1
            /\ last.req.resp.by # "requireRole"
       ELSE /\ Count(last.req.next, "requireRole") = 0
            /\ last.req.pc = "done"
            /\ last.req.resp = Error(403, "INSUFFICIENT_PERMISSIONS", "requireRole")

\* C2's case: an OWNER has been rejected by requireStaff.
C2_Witness ==
    /\ AtGate /\ last.req.op = "POST /api/posts"
    /\ last.req.user.role = "OWNER"
    /\ last.req.resp.code = "INSUFFICIENT_PERMISSIONS"

\* C3: no access or refresh token is issued for a user whose stored active
\* flag is false at the moment the tokens are generated.
C3_NoSessionForInactive ==
    \A t \in TokensOf(last.req.resp) : Stored(t) # NoUser /\ Stored(t).isActive

\* The requests that present a refresh token.
AtRefresh == last.act = "Refresh"

\* C4: refreshing with a valid, unexpired refresh token of an active user
\* yields a new access token whose role and email are the ones stored at
\* refresh time, not the ones in the refresh token.
C4_RefreshReadsStoredRole ==
    (AtRefresh /\ Valid(last.token, REFRESH_SECRET)
        /\ Stored(last.token) # NoUser /\ Stored(last.token).isActive)
    => /\ last.req.resp.status = 200
       /\ last.req.resp.accessToken =
             Part("jwt", ACCESS_SECRET, last.token.userId, Stored(last.token).email,
                  Stored(last.token).role, now, now + ACCESS_TOKEN_EXPIRY)

\* C4's case: a refresh has answered with a role other than the token's.
C4_Witness ==
    /\ AtRefresh /\ Valid(last.token, REFRESH_SECRET)
    /\ last.req.resp.status = 200
    /\ last.req.resp.accessToken.role # last.token.role
    /\ last.req.resp.accessToken.role = Stored(last.token).role

\* C5: refreshing with a correctly signed, unexpired refresh token whose user
\* has been deactivated or deleted answers 401 INVALID_REFRESH_TOKEN and
\* returns no access token.
C5_RefreshFailsForInactiveOrDeleted ==
    (AtRefresh /\ Valid(last.token, REFRESH_SECRET)
        /\ (Stored(last.token) = NoUser \/ ~Stored(last.token).isActive))
    => /\ last.req.resp = Error(401, "INVALID_REFRESH_TOKEN", "refresh")
       /\ TokensOf(last.req.resp) = {}

\* C5's case: a refresh for a deactivated user has been answered.
C5_Witness ==
    /\ AtRefresh /\ Valid(last.token, REFRESH_SECRET)
    /\ Stored(last.token) # NoUser /\ ~Stored(last.token).isActive
    /\ last.req.resp.status = 401

\* C6: for every access token whose expiry has elapsed, authenticateToken
\* answers 401 TOKEN_EXPIRED whatever the stored user is, attaches no user
\* and never calls next.
C6_ExpiredTokenRejected ==
    (AtGate /\ Presented.kind = "jwt" /\ Presented.key = ACCESS_SECRET /\ now >= Presented.exp)
    => /\ last.req.pc = "done"
       /\ last.req.resp = Error(401, "TOKEN_EXPIRED", "authenticateToken")
       /\ last.req.next = <<>>
       /\ last.req.user = NoUser

\* C6's case: an expired token of a user that is no longer stored as an
\* active user has been answered with TOKEN_EXPIRED.
C6_Witness ==
    /\ AtGate /\ Presented.kind = "jwt" /\ Presented.key = ACCESS_SECRET /\ now >= Presented.exp
    /\ (Stored(Presented) = NoUser \/ ~Stored(Presented).isActive)
    /\ last.req.resp.code = "TOKEN_EXPIRED"

\* A refresh token as generateTokens issues it.
IsRefreshToken(t) ==
    t.kind = "jwt" /\ t.key = REFRESH_SECRET /\ t.exp - t.iat = REFRESH_TOKEN_EXPIRY
IsAccessToken(t) ==
    t.kind = "jwt" /\ t.key = ACCESS_SECRET /\ t.exp - t.iat = ACCESS_TOKEN_EXPIRY
Rejected(code) ==
    /\ last.req.pc = "done"
    /\ last.req.resp = Error(401, code, "authenticateToken")
    /\ last.req.next = <<>>

\* C7: every bearer token that is not signed with the access secret (a
\* string that is no JWT, a token signed with another party's key, a refresh
\* token that generateTokens signed with the refresh secret) is answered with
\* 401 INVALID_TOKEN whatever its expiry and its user are, and next is never
\* called.
C7_WrongSecretRejected ==
    (AtGate /\ Presented.kind \in {"jwt", "malformed"} /\ Presented.key # ACCESS_SECRET)
    => Rejected("INVALID_TOKEN") /\ last.req.user = NoUser

\* C7's case: an unexpired refresh token of an active user has been presented
\* as a bearer token and rejected.
C7_Witness ==
    /\ AtGate /\ Presented \in issued /\ IsRefreshToken(Presented) /\ now < Presented.exp
    /\ Presented.key # ACCESS_SECRET
    /\ Stored(Presented) # NoUser /\ Stored(Presented).isActive
    /\ last.req.resp.code = "INVALID_TOKEN"

\* C8: in every configuration, refreshing with a token signed with the
\* access secret answers 401 INVALID_REFRESH_TOKEN and mints no token.
C8_AccessTokenCannotRefresh ==
    (AtRefresh /\ last.token.kind = "jwt" /\ last.token.key = ACCESS_SECRET)
    => /\ last.req.resp = Error(401, "INVALID_REFRESH_TOKEN", "refresh")
       /\ TokensOf(last.req.resp) = {}

\* The same refusal in the configurations whose two secrets differ, the
\* fallback secrets among them.
DistinctSecretsRefuseAccessToken ==
    (AtRefresh /\ last.token.kind = "jwt" /\ last.token.key = ACCESS_SECRET
        /\ ACCESS_SECRET # REFRESH_SECRET)
    => /\ last.req.resp = Error(401, "INVALID_REFRESH_TOKEN", "refresh")
       /\ TokensOf(last.req.resp) = {}

\* The case of that refusal: under the fallback secrets an unexpired access token of an
\* active user has been sent to the refresh endpoint and refused.
DistinctSecretsWitness ==
    /\ env.JWT_ACCESS_SECRET = "" /\ env.JWT_REFRESH_SECRET = ""
    /\ AtRefresh /\ last.token \in issued /\ IsAccessToken(last.token) /\ now < last.token.exp
    /\ Stored(last.token) # NoUser /\ Stored(last.token).isActive
    /\ last.req.resp.code = "INVALID_REFRESH_TOKEN"

\* The answers of the gate after which no handler runs.
GateRefusals == {"MISSING_TOKEN", "INVALID_TOKEN", "TOKEN_EXPIRED", "USER_NOT_FOUND",
                 "USER_INACTIVE", "INSUFFICIENT_PERMISSIONS", "UNAUTHORIZED"}
RefusedAtGate(l) == l.act \in GateActs /\ l.req.resp.by \in {"authenticateToken", "requireRole"}

C9_Order ==
    AtGate =>
       /\ Presented.kind = "undefined" => Rejected("MISSING_TOKEN")
       /\ (Valid(Presented, ACCESS_SECRET) /\ Stored(Presented) = NoUser)
             => Rejected("USER_NOT_FOUND")
       /\ (Valid(Presented, ACCESS_SECRET) /\ Stored(Presented) # NoUser
              /\ ~Stored(Presented).isActive)
             => Rejected("USER_INACTIVE")
       /\ RefusedAtGate(last) =>
             /\ last.req.pc = "done"
             /\ last.req.resp.status \in {401, 403}
             /\ last.req.resp.code \in GateRefusals
             /\ last.req.resp.posts = <<>> /\ last.req.resp.user = NoUser
             /\ TokensOf(last.req.resp) = {}
       /\ last.req.resp.code \in GateRefusals => RefusedAtGate(last)

\* A step in which the gate refuses a request leaves both tables as they are
\* and leaves no request in flight that was not in flight before.
C9_Frame ==
    RefusedAtGate(last') => /\ users' = users /\ posts' = posts /\ reqs' = reqs

\* C9: the gate checks in a fixed order and stops at the first failure with a
\* 401 (no token: MISSING_TOKEN; no stored user: USER_NOT_FOUND; inactive
\* user: USER_INACTIVE); after any of these, and after INSUFFICIENT_PERMISSIONS
\* from the role check, the handler does not run and no post or user record
\* is returned or modified.
C9_GateStopsAtFirstFailure == [](C9_Order) /\ [][C9_Frame]_vars

\* C9's case: the gate has refused a request of a deactivated user.
C9_Witness ==
    /\ AtGate /\ Valid(Presented, ACCESS_SECRET)
    /\ Stored(Presented) # NoUser /\ ~Stored(Presented).isActive
    /\ last.req.resp.code = "USER_INACTIVE"

\* C10: the post list returned to a user whose role is MEMBER contains only
\* posts with status PUBLISHED, whatever the query is.
C10_MemberSeesOnlyPublished ==
    (last.act = "ListPostsFind" /\ last.req.user.role = "MEMBER"
        /\ FindUserById(last.req.user.id).role = "MEMBER")
    => \A i \in 1..Len(last.req.resp.posts) : last.req.resp.posts[i].status = "PUBLISHED"

\* The request in slot s takes a step of the route op.
Steps(s, op) == reqs[s].op = op /\ reqs'[s] # reqs[s]
\* The step edits the stored post id: the row stays and its fields change.
Edits(id) == posts[id] \notin {NoPost, Deleted} /\ posts'[id] \notin {posts[id], NoPost, Deleted}

C11_Put(s) ==
    LET r    == reqs[s]
        post == FindPostById(r.body.id)
    IN  Steps(s, "PUT /api/posts/:id") =>
          /\ (r.pc = "find" /\ r.user.role = "STAFF" /\ post # NoPost /\ post.authorId # r.user.id)
                => /\ last'.req.resp = Error(403, "INSUFFICIENT_PERMISSIONS", "handler")
                   /\ reqs'[s] = Idle
                   /\ posts' = posts
          /\ (r.user.role = "ADMIN" /\ post # NoPost)
                => /\ r.pc = "find" => reqs'[s].pc = "write" /\ posts' = posts
                   /\ r.pc = "write" => last'.req.resp.status = 200 /\ (r.body.status # Undefined => posts'[r.body.id].status = r.body.status)

\* C11: a PUT /api/posts/:id of a STAFF user whose id is not the post's
\* authorId is answered 403 INSUFFICIENT_PERMISSIONS and leaves the posts as
\* they are; every edit of a stored post is the write of a PUT whose user is
\* an ADMIN, or a STAFF user who is the post's author; an ADMIN's PUT of any
\* stored post goes through.
C11_StaffEditsOnlyOwnPosts ==
    [][ /\ \A s \in Slots : C11_Put(s)
        /\ \A id \in PostIds : Edits(id) =>
              \E s \in Slots :
                 /\ Steps(s, "PUT /api/posts/:id") /\ reqs[s].pc = "write" /\ reqs[s].body.id = id
                 /\ reqs[s].user.role \in {"ADMIN", "STAFF"}
                 /\ reqs[s].user.role = "STAFF" => posts[id].authorId = reqs[s].user.id
                 /\ \A other \in PostIds \ {id} : posts'[other] = posts[other] ]_vars

\* C11's case: a STAFF user has been refused the edit of a post of the admin.
C11_Witness ==
    /\ last.act = "UpdatePostFind" /\ last.req.user.role = "STAFF"
    /\ last.req.resp = Error(403, "INSUFFICIENT_PERMISSIONS", "handler")
    /\ posts = SeedPosts

\* A STAFF user has edited the post it created.
C11_OwnEdit ==
    /\ last.act = "UpdatePostWrite" /\ last.req.user.role = "STAFF"
    /\ last.req.resp.status = 200 /\ posts["p4"].authorId = last.req.user.id

\* The step stores a post under id, which held none.
Creates(id) == posts[id] = NoPost /\ posts'[id] # NoPost

\* C12: every post that comes into the store is created by the create step
\* of a POST /api/posts; its authorId and createdById are the id of req.user,
\* whatever the body says, the role of req.user (the stored row the gate read
\* for this request) is ADMIN or STAFF, and its status is the status of the
\* body, or DRAFT when the body has none.
C12_CreatedPostBelongsToRequester ==
    [][ \A id \in PostIds : Creates(id) =>
          \E s \in Slots :
             /\ Steps(s, "POST /api/posts") /\ reqs[s].pc = "write"
             /\ posts'[id].authorId = reqs[s].user.id
             /\ posts'[id].createdById = reqs[s].user.id
             /\ reqs[s].user.id \in UserIds
             /\ reqs[s].user.role \in {"ADMIN", "STAFF"}
             /\ posts'[id].status = (IF reqs[s].body.status = Undefined THEN "DRAFT"
                                     ELSE reqs[s].body.status)
             /\ posts'[id].status \in PostStatuses
             /\ \A other \in PostIds \ {id} : posts'[other] = posts[other]
             /\ last'.req.resp.status = 201 ]_vars

\* C12's case: a user whose token says MEMBER and whose stored role is STAFF
\* has created a post, which carries its id and the default status.
C12_Witness ==
    /\ last.act = "CreatePostWrite" /\ last.req.resp.status = 201
    /\ posts["p4"].authorId = "u_member" /\ posts["p4"].createdById = "u_member"
    /\ last.req.user.role = "STAFF"
    /\ posts["p4"].status = "DRAFT"

\* The step removes the stored post id.
Removes(id) == posts[id] \notin {NoPost, Deleted} /\ posts'[id] \in {NoPost, Deleted}

\* C13: a post leaves the store only in the delete step of a
\* DELETE /api/posts/:id whose authenticated user has the stored role ADMIN;
\* the same request from a STAFF, MEMBER or OWNER user is answered
\* 403 INSUFFICIENT_PERMISSIONS and the posts stay as they are.
C13_OnlyAdminDeletesPosts ==
    [][ /\ \A id \in PostIds : Removes(id) =>
              \E s \in Slots :
                 /\ Steps(s, "DELETE /api/posts/:id") /\ reqs[s].pc = "write"
                 /\ reqs[s].body.id = id
                 /\ reqs[s].user.role = "ADMIN"
                 /\ \A other \in PostIds \ {id} : posts'[other] = posts[other]
        /\ (last'.act = "DeletePost" /\ last'.req.user.role \in {"STAFF", "MEMBER", "OWNER"})
              => /\ last'.req.resp = Error(403, "INSUFFICIENT_PERMISSIONS", "requireRole")
                 /\ last'.req.pc = "done"
                 /\ posts' = posts /\ reqs' = reqs ]_vars

\* C13's case: a STAFF user's delete has been refused with every post still
\* stored.
C13_Witness ==
    /\ last.act = "DeletePost" /\ last.req.user.role = "STAFF"
    /\ last.req.resp.code = "INSUFFICIENT_PERMISSIONS"
    /\ posts = SeedPosts

\* A user whose token says MEMBER and whose stored role is ADMIN has deleted
\* a post.
C13_AdminDeletes ==
    /\ last.act = "DeletePostWrite" /\ last.req.resp.status = 200
    /\ last.req.user.id = "u_member" /\ last.req.user.role = "ADMIN"
    /\ posts["p3"] = Deleted

\* The stored state: the two tables and the tokens handed out.
Store == <<users, posts, issued>>

C14_Arrival ==
    last'.act = "Login" =>
       \/ /\ last'.req.pc = "compare"
          /\ last'.req.found = FindUserByEmail(last'.req.body.email)
          /\ last'.req.found # NoUser /\ last'.req.found.isActive
          /\ Store' = Store
       \/ /\ last'.req.pc = "done"
          /\ last'.req.resp \in {Error(400, "VALIDATION_ERROR", "login"),
                                 Error(401, "INVALID_CREDENTIALS", "login"),
                                 Error(401, "ACCOUNT_INACTIVE", "login")}
          /\ Store' = Store

C14_Compare(s) ==
    LET r == reqs[s]
    IN  (Steps(s, "POST /api/auth/login") /\ r.pc = "compare") =>
           IF r.found.password # BcryptHash(r.body.password)
           THEN /\ last'.req.resp = Error(401, "INVALID_CREDENTIALS", "login")
                /\ reqs'[s] = Idle
                /\ Store' = Store
           ELSE /\ last'.req.resp.status = 200
                /\ last'.req.resp.user.id = r.found.id
                /\ last'.req.resp.accessToken =
                      Part("jwt", ACCESS_SECRET, r.found.id, r.found.email, r.found.role,
                           now, now + ACCESS_TOKEN_EXPIRY)
                /\ last'.req.resp.refreshToken =
                      Part("jwt", REFRESH_SECRET, r.found.id, r.found.email, r.found.role,
                           now, now + REFRESH_TOKEN_EXPIRY)
                /\ users' = users /\ posts' = posts

C14_SuccessAfter ==
    /\ last.act = "LoginCompare" /\ last.req.resp.status = 200
    /\ nReq = MaxRequests /\ users = SeedUsers

\* t is a refresh token the server accepts in this state.
Refreshable(t) == Valid(t, REFRESH_SECRET) /\ Stored(t) # NoUser /\ Stored(t).isActive

C15_ServerUse ==
    (last'.act = "Refresh" /\ Refreshable(last'.token)) =>
       /\ last'.req.resp.status = 200
       /\ last'.req.resp.accessToken # NoToken
       /\ last'.req.resp.refreshToken = NoToken
       /\ issued' \ issued \subseteq {last'.req.resp.accessToken}
       /\ users' = users /\ now' = now /\ env' = env
       /\ client' = client

C15_ClientUse ==
    (client.call.pc = "refresh" /\ client'.call.refreshed = "true") =>
       /\ Refreshable(client.call.refreshToken)
       /\ client'.storage.refreshToken = client.call.refreshToken
       /\ IsAccessToken(client'.storage.accessToken)
       /\ client'.storage.accessToken.iat = now
       /\ issued' \ issued \subseteq {client'.storage.accessToken}
       /\ users' = users /\ now' = now /\ env' = env

\* C15: a refresh with a refresh token the server accepts is answered 200
\* with an access token and no refresh token, and changes nothing that the
\* acceptance of that refresh token rests on (the signature secrets, the
\* clock, the user's row), so that the same token is accepted again until it
\* expires or its user stops being active; the browser stores the new access
\* token together with the refresh token it sent.
C15_RefreshDoesNotRotate == [][C15_ServerUse /\ C15_ClientUse]_vars

\* C15's case: the browser has refreshed with a refresh token and kept it,
\* and the server has then accepted the same refresh token once more.
C15_Witness ==
    /\ client.call.refreshed = "true"
    /\ client.storage.refreshToken = client.call.refreshToken
    /\ last.act = "Refresh" /\ last.token = client.call.refreshToken
    /\ last.req.resp.status = 200

\* The browser's call of POST /api/auth/logout has been answered.
LoggedOut ==
    /\ client.call.endpoint = "POST /api/auth/logout" /\ client.call.pc = "done"
    /\ client.call.result = LogoutResponse

\* The step in which the server answers the browser's logout.
C16_LogoutStep ==
    /\ client.call.pc = "fetch" /\ client.call.endpoint = "POST /api/auth/logout"
    /\ client'.call.pc = "done" /\ client'.call.result # NETWORK_ERROR

C16_Frame ==
    C16_LogoutStep =>
       /\ client'.call.result = LogoutResponse
       /\ users' = users /\ posts' = posts /\ issued' = issued
       /\ env' = env /\ now' = now /\ reqs' = reqs

C16_StillAccepted ==
    LoggedOut =>
       /\ (AtGate /\ Valid(Presented, ACCESS_SECRET)
              /\ Stored(Presented) # NoUser /\ Stored(Presented).isActive)
             => /\ Count(last.req.next, "authenticateToken") = 1
                /\ last.req.user.id = Presented.userId
       /\ (AtRefresh /\ Refreshable(last.token))
             => last.req.resp.status = 200 /\ last.req.resp.accessToken # NoToken

\* C16: the logout route answers success and changes nothing on the server,
\* and after the browser has logged out an access token issued before is
\* still let through by authenticateToken, and a refresh token issued before
\* is still accepted by the refresh route, as long as the token has not
\* expired and its user exists and is active.
C16_LogoutIsClientSideOnly == [](C16_StillAccepted) /\ [][C16_Frame]_vars

\* C16's case: the browser has logged out and cleared its storage, and the
\* gate has then let through the access token the member got at login.
C16_Witness ==
    /\ LoggedOut
    /\ client.storage = [accessToken |-> NoToken, refreshToken |-> NoToken]
    /\ AtGate /\ Presented = generateTokens(SeedUsers["u_member"]).accessToken
    /\ Count(last.req.next, "authenticateToken") = 1

\* The same for the refresh token of that login.
C16_RefreshAfterLogout ==
    /\ LoggedOut
    /\ client.storage = [accessToken |-> NoToken, refreshToken |-> NoToken]
    /\ AtRefresh /\ last.token.iat = 0 /\ last.req.resp.status = 200

\* The two routes that create a user.
CreateOps == {"POST /api/auth/register", "POST /api/users"}
\* No two stored users share an email.
UniqueEmails ==
    \A a, b \in DOMAIN users :
        (users[a] # NoUser /\ users[b] # NoUser /\ users[a].email = users[b].email) => a = b
\* A step of a create request, past its validators, that finds its email held.
C17_Conflict(s) ==
    /\ reqs[s].op \in CreateOps /\ reqs[s].pc \in {"find", "write"} /\ reqs'[s] # reqs[s]
    /\ EmailTaken(reqs[s].body.email)

\* C17: no two stored users share an email, and every register or admin
\* create-user whose email is already held is answered 409 USER_EXISTS and
\* creates nothing, also when two requests for the same new email both pass
\* the existence check before either creates.
C17_ConflictIsUserExists ==
    /\ []UniqueEmails
    /\ [][\A s \in Slots : C17_Conflict(s) =>
             /\ last'.req.resp.status = 409 /\ last'.req.resp.code = "USER_EXISTS"
             /\ users' = users]_vars

\* C17's case: a register has passed the existence check, another request
\* has then stored its address, and the register's create has been refused.
C17_Witness ==
    /\ last.act = "RegisterWrite" /\ last.req.resp.status = 500
    /\ last.req.resp.code = "REGISTRATION_ERROR"
    /\ EmailTaken("new@example.com") /\ UniqueEmails

\* The part of C17 the code keeps: emails stay unique, a request that finds
\* its email held at the existence check is answered 409, and no conflicting
\* request creates a row.
C17_NoDuplicateRow ==
    /\ []UniqueEmails
    /\ [][\A s \in Slots : C17_Conflict(s) =>
             /\ users' = users
             /\ reqs[s].pc = "find" =>
                   last'.req.resp.status = 409 /\ last'.req.resp.code = "USER_EXISTS"]_vars

\* A response is the server's 401 TOKEN_EXPIRED.
IsTokenExpired(resp) == resp.status = 401 /\ resp.code = "TOKEN_EXPIRED"
\* The call of makeRequest is under way.
InCall == client.call.pc \in {"fetch", "refresh", "refreshed", "retry"}
Returned == client.call.pc = "done"

C18_OneRefreshOneRetry ==
    LET call == client.call
    IN  /\ call.refreshes <= 1 /\ call.fetches <= 2
        /\ call.pc \in {"retry", "done"} /\ call.fetches = 2 =>
              call.refreshes = 1 /\ call.refreshed = "true" /\ IsTokenExpired(call.data)
        /\ call.refreshed # "none" \/ call.refreshes = 1 => IsTokenExpired(call.data)
        /\ Returned /\ IsTokenExpired(call.data) => call.refreshed \in {"true", "false"}
        /\ Returned => call.result # NoResp
        /\ Returned /\ call.refreshed = "false" => call.result = call.data /\ call.fetches = 1
        /\ Returned /\ call.fetches = 1 /\ call.result # NETWORK_ERROR => call.result = call.data

\* The retry's response is returned as it is.
C18_RetryReturned ==
    (client.call.pc = "retry" /\ client'.call.pc = "done" /\ client'.call.result # NETWORK_ERROR)
       => client'.call.result = ServerResponse(client.call.endpoint, client.call.token)

\* C18: one call of makeRequest sends at most one request to /auth/refresh
\* and at most two to its endpoint, the second only after a 401 TOKEN_EXPIRED
\* and a refresh that succeeded; the retry's response is returned as it is; a
\* failed refresh returns the first response without a retry; and every call
\* returns a response.
C18_MakeRequestTerminates ==
    /\ []C18_OneRefreshOneRetry
    /\ [][C18_RetryReturned]_vars
    /\ (InCall ~> Returned)

\* C18's case: the call has refreshed, retried, and returned the retry's
\* response, which is itself a 401 TOKEN_EXPIRED.
C18_Witness ==
    /\ Returned /\ client.call.fetches = 2 /\ client.call.refreshes = 1
    /\ IsTokenExpired(client.call.data) /\ IsTokenExpired(client.call.result)

\* The refresh failed and the first response was returned.
C18_RefreshFailed ==
    /\ Returned /\ client.call.refreshes = 1 /\ client.call.refreshed = "false"
    /\ client.call.fetches = 1 /\ IsTokenExpired(client.call.result)

\* The three routes that write a user's role.
RoleWriteOps == {"POST /api/auth/register", "POST /api/users", "PUT /api/users/:id"}
\* Every stored user's role is one of the four.
RolesStored == \A id \in DOMAIN users : users[id] # NoUser => users[id].role \in Roles
\* A request of the three routes that is past its validators carries one of
\* the four roles (or, for the update, none).
RolesPastValidators ==
    \A s \in Slots :
        reqs[s].op \in RoleWriteOps /\ reqs[s].pc \in {"find", "write"} =>
            \/ reqs[s].body.role \in Roles
            \/ reqs[s].op = "PUT /api/users/:id" /\ reqs[s].body.role = Undefined
\* The request that has just arrived failed the role validator.
RoleRefused ==
    /\ last.act \in {"Register", "CreateUser", "UpdateUser"}
    /\ "role" \in last.req.resp.details

\* C19: every stored user's role is ADMIN, STAFF, MEMBER or OWNER; a
\* register, an admin's create-user or an admin's update-user that supplies
\* another role is answered 400 VALIDATION_ERROR, goes no further than its
\* validators, and leaves the user table as it was.
C19_RoleIsOneOfFour ==
    /\ [](RolesStored /\ RolesPastValidators)
    /\ [](RoleRefused => /\ last.req.resp.status = 400 /\ last.req.resp.code = "VALIDATION_ERROR"
                         /\ last.req.pc = "done")
    /\ [][RoleRefused' => users' = users]_vars

\* C19's case: the admin's create-user with a role outside the four has been
\* refused, and a user created before it is stored with its role.
C19_Witness ==
    /\ RoleRefused /\ last.act = "CreateUser" /\ last.req.resp.details = {"role"}
    /\ Count(last.req.next, "requireRole") = 1 /\ last.req.user.role = "ADMIN"
    /\ \E id \in DOMAIN users \ UserIds : users[id].role \in Roles

\* The same for register and for the admin's update.
C19_RegisterRefused == RoleRefused /\ last.act = "Register"
C19_UpdateRefused == RoleRefused /\ last.act = "UpdateUser"

\* A GET /api/auth/me has just been answered, and it carried an access token
\* that is valid, unexpired, and of a stored active user.
C20_ValidMe ==
    /\ last.act = "Me" /\ Valid(Presented, ACCESS_SECRET)
    /\ Stored(Presented) # NoUser /\ Stored(Presented).isActive

\* C20: a GET /api/auth/me that carries a valid, unexpired access token of
\* an existing active user is answered with success and with the id, email
\* and role of that user.
C20_MeReturnsCurrentUser ==
    C20_ValidMe =>
        /\ last.req.resp.code = "success"
        /\ last.req.resp.user.id = Stored(Presented).id
        /\ last.req.resp.user.email = Stored(Presented).email
        /\ last.req.resp.user.role = Stored(Presented).role

\* C20's case: the member's request with the access token of its login has
\* been answered 401 UNAUTHORIZED.
C20_Witness ==
    /\ C20_ValidMe /\ Presented = generateTokens(SeedUsers["u_member"]).accessToken
    /\ last.req.resp.status = 401 /\ last.req.resp.code = "UNAUTHORIZED"

\* What the auth router as written does: every GET /api/auth/me is answered
\* 401 UNAUTHORIZED.
C20_MeAlwaysUnauthorized ==
    last.act = "Me" => last.req.resp.status = 401 /\ last.req.resp.code = "UNAUTHORIZED"

\* The routes that update or delete a stored record by id.
C21_MutationOps == {"PUT /api/posts/:id", "DELETE /api/posts/:id",
                "PUT /api/users/:id", "DELETE /api/users/:id"}
\* The record a request of these routes names is not stored.
C21_NoRecord(r) ==
    IF r.op \in PostOps THEN FindPostById(r.body.id) = NoPost
    ELSE FindUserById(r.body.id) = NoUser
\* A step of such a request, at its existence check or at its update or
\* delete, that finds no record.
C21_Missing(s) ==
    /\ reqs[s].op \in C21_MutationOps /\ reqs[s].pc \in {"find", "write"} /\ reqs'[s] # reqs[s]
    /\ C21_NoRecord(reqs[s])

\* C21: a PUT or DELETE on a post or user id that has no stored record when
\* the existence check, the update or the delete runs is answered 404
\* (POST_NOT_FOUND / USER_NOT_FOUND), also when another request deleted the
\* record after this request's existence check.
C21_MissingIs404 ==
    [][\A s \in Slots : C21_Missing(s) =>
          /\ last'.req.resp.status = 404
          /\ last'.req.resp.code \in {"POST_NOT_FOUND", "USER_NOT_FOUND"}]_vars

\* C21's case: a delete has passed its existence check, another request has
\* then deleted the post, and the delete has been answered 500.
C21_Witness ==
    /\ last.act = "DeletePostWrite" /\ last.req.resp.status = 500
    /\ last.req.resp.code = "DELETE_POST_ERROR"
    /\ \E id \in PostIds : posts[id] = Deleted

\* The part of C21 the code keeps: a record missing at the existence check
\* is answered 404, and a missing record is never written.
C21_MissingAtCheckIs404 ==
    [][\A s \in Slots : C21_Missing(s) =>
          /\ users' = users /\ posts' = posts
          /\ reqs[s].pc = "find" =>
                /\ last'.req.resp.status = 404
                /\ last'.req.resp.code \in {"POST_NOT_FOUND", "USER_NOT_FOUND"}]_vars

\* A call to a gated endpoint that started with an expired access token has
\* returned a server's response, the stored refresh token is that of the
\* login and is valid, and the user table is as seeded (the member is active).
C22_Case ==
    /\ Returned /\ client.call.endpoint \in GatedOps
    /\ client.call.accessToken # NoToken /\ client.call.accessToken.exp < client.call.at
    /\ client.call.result # NETWORK_ERROR /\ client.call.refreshed # "false"
    /\ client.storage.refreshToken.userId = "u_member" /\ client.storage.refreshToken.iat = 0
    /\ Refreshable(client.storage.refreshToken) /\ users = SeedUsers

\* C22: a request made through HttpClient while the stored access token has
\* expired and the stored refresh token is valid for an active user calls
\* the refresh endpoint, stores the new access token, and retries the
\* request with the new token in its Authorization header.
C22_ExpiredTokenIsRefreshed ==
    C22_Case =>
        /\ client.call.refreshes = 1 /\ client.call.refreshed = "true"
        /\ client.call.fetches = 2
        /\ client.call.token # client.call.accessToken /\ client.call.token # NoToken

\* C22's case: the call has returned 401 MISSING_TOKEN without a refresh.
C22_Witness ==
    /\ C22_Case /\ client.call.refreshes = 0 /\ client.call.fetches = 1
    /\ client.call.result.status = 401 /\ client.call.result.code = "MISSING_TOKEN"
    /\ client.storage.accessToken = client.call.accessToken

\* What makeRequest does: a call that sent no Authorization header never
\* refreshes, and a call refreshes only after the server answered the token
\* it sent with TOKEN_EXPIRED.
C22_RefreshOnlyOnTokenExpired ==
    /\ client.call.token = NoToken => client.call.refreshes = 0
    /\ client.call.refreshes = 1 =>
          IsTokenExpired(client.call.data) /\ ~(client.call.accessToken.exp < client.call.at)

\* A request has arrived at the gate with a valid access token whose user
\* has since been changed: the role stored differs from the token's, or the
\* user is stored as inactive, or is not stored.
C24_ChangedSince ==
    /\ AtGate /\ Valid(Presented, ACCESS_SECRET) /\ Presented \in issued
    /\ \/ Stored(Presented) = NoUser
       \/ ~Stored(Presented).isActive
       \/ Stored(Presented).role # Presented.role

\* C24: a request that arrives with a still-unexpired access token of a
\* user whom an admin has changed since the token was issued is judged by
\* the stored record: refused USER_NOT_FOUND when the user was deleted,
\* refused USER_INACTIVE when isActive is false, and otherwise let through
\* or refused 403 by the route's role check according to the stored role,
\* whatever role the token carries.
C24_StoredRecordDecides ==
    C24_ChangedSince =>
        IF Stored(Presented) = NoUser THEN Rejected("USER_NOT_FOUND")
        ELSE IF ~Stored(Presented).isActive THEN Rejected("USER_INACTIVE")
        ELSE /\ last.req.user.role = Stored(Presented).role
             /\ last.req.op \notin {"GET /api/posts", "GET /api/posts/:id"} =>
                   IF Stored(Presented).role \in AllowList(last.req.op)
                   THEN Count(last.req.next, "requireRole") = 1
                   ELSE /\ Count(last.req.next, "requireRole") = 0
                        /\ last.req.resp = Error(403, "INSUFFICIENT_PERMISSIONS", "requireRole")

\* C24's case: the member, made STAFF by the admin, has been let through
\* requireStaff with the token of the login as MEMBER.
C24_Witness ==
    /\ C24_ChangedSince /\ last.req.op = "POST /api/posts"
    /\ Presented.role = "MEMBER" /\ Stored(Presented).role = "STAFF"
    /\ Count(last.req.next, "requireRole") = 1

\* The member has been deactivated, and the member has been deleted.
C24_Deactivated ==
    C24_ChangedSince /\ Stored(Presented) # NoUser /\ last.req.resp.code = "USER_INACTIVE"
C24_DeletedUser ==
    C24_ChangedSince /\ Stored(Presented) = NoUser /\ last.req.resp.code = "USER_NOT_FOUND"
\* The member, made STAFF, is refused by requireAdmin by the stored role.
C24_RefusedByStoredRole ==
    /\ C24_ChangedSince /\ Stored(Presented).role = "STAFF" /\ Presented.role = "MEMBER"
    /\ last.req.resp.code = "INSUFFICIENT_PERMISSIONS"

\* The step stores a new user with role ADMIN.
C25_CreatesAdmin == \E id \in DOMAIN users' \ DOMAIN users : users'[id].role = "ADMIN"
\* The step changes the role or the active flag of a stored user.
C25_ChangesRoleOrActive ==
    \E id \in DOMAIN users :
        /\ users[id] # NoUser /\ users'[id] # NoUser
        /\ users'[id].role # users[id].role \/ users'[id].isActive # users[id].isActive
\* The step is a step of a request that the gate authenticated as a user
\* stored with role ADMIN.
C25_ByAdmin == \E s \in Slots : reqs'[s] # reqs[s] /\ reqs[s].user # NoUser /\ reqs[s].user.role = "ADMIN"

\* C25: a user with role ADMIN is created, and a user's role or active flag
\* is changed, only by a request authenticated as a user whose stored role
\* is ADMIN; no unauthenticated request brings an ADMIN account into being.
C25_OnlyAdminManagesUsers == [][(C25_CreatesAdmin \/ C25_ChangesRoleOrActive) => C25_ByAdmin]_vars

\* C25's case: a register, which carries no token, has been answered 201
\* with a new user whose role is ADMIN, and that user is stored.
C25_Witness ==
    /\ last.act = "RegisterWrite" /\ last.req.resp.status = 201 /\ last.req.user = NoUser
    /\ last.req.resp.user.role = "ADMIN"
    /\ \E id \in DOMAIN users \ UserIds : users[id].role = "ADMIN" /\ users[id].isActive

\* The part of C25 the code keeps: the users router creates users and
\* changes roles and active flags for admins only.
C25_UsersRouterIsAdminOnly ==
    [][((C25_CreatesAdmin /\ \A s \in Slots : ~Steps(s, "POST /api/auth/register"))
           \/ C25_ChangesRoleOrActive) => C25_ByAdmin]_vars

\* A step of a user-delete request that is past the gate.
C26_DeleteStep(s) == Steps(s, "DELETE /api/users/:id") /\ reqs[s].pc \in {"find", "write"}
\* The existence check and the self check of the request in slot s.
C26_Checks(s) ==
    (C26_DeleteStep(s) /\ reqs[s].pc = "find") =>
        IF FindUserById(reqs[s].body.id) = NoUser
        THEN last'.req.resp = Error(404, "USER_NOT_FOUND", "handler") /\ users' = users
        ELSE reqs[s].body.id = reqs[s].user.id =>
                last'.req.resp = Error(400, "CANNOT_DELETE_SELF", "handler") /\ users' = users
\* The requester's record is stored when its request completes.
C26_RequesterRemains(s) ==
    (C26_DeleteStep(s) /\ last'.req.pc = "done") => users'[reqs[s].user.id] # NoUser

\* C26: a user-delete whose id is the requester's own is answered 400
\* CANNOT_DELETE_SELF and removes nothing, a user-delete of an id that is
\* not stored is answered 404 USER_NOT_FOUND before the self check, and the
\* record of the requester of a user-delete is stored when the request
\* completes.
C26_AdminOutlivesOwnDelete ==
    [][\A s \in Slots : C26_Checks(s) /\ C26_RequesterRemains(s)]_vars

\* C26's case: a user-delete has been answered 200 and its requester is no
\* longer stored.
C26_Witness ==
    /\ last.act = "DeleteUserWrite" /\ last.req.resp.status = 200
    /\ last.req.user.role = "ADMIN" /\ FindUserById(last.req.user.id) = NoUser

\* The self-delete has been refused.
C26_SelfRefused ==
    /\ last.act = "DeleteUserFind" /\ last.req.resp.code = "CANNOT_DELETE_SELF"
    /\ FindUserById(last.req.user.id) # NoUser

\* The part of C26 the code keeps: the two checks, and no request removes
\* the record of its own requester.
C26_NoSelfDelete ==
    [][\A s \in Slots :
          /\ C26_Checks(s)
          /\ C26_DeleteStep(s) => users'[reqs[s].user.id] = users[reqs[s].user.id]]_vars
\* initializeAuth's branch of an expired access token completes in this step.
C23_InitStep ==
    /\ client.auth.initializeAuth.pc = "logout"
    /\ client'.auth.initializeAuth.pc = "done"

\* C23: when initializeAuth finds both tokens stored and the access token
\* expired, a stored refresh token that is still valid is not discarded: it
\* is still in localStorage when initializeAuth has completed.
C23_ValidRefreshTokenKept ==
    [][C23_InitStep /\ Refreshable(client.storage.refreshToken)
          => client'.storage.refreshToken = client.storage.refreshToken]_vars

\* C23's case: initializeAuth read an expired access token and a refresh
\* token that is valid still, has completed, and localStorage is empty.
C23_Witness ==
    /\ client.auth.initializeAuth.pc = "done"
    /\ client.auth.initializeAuth.result = "logged out"
    /\ client.auth.initializeAuth.accessToken.exp < client.auth.initializeAuth.at
    /\ Refreshable(client.auth.initializeAuth.refreshToken)
    /\ client.storage = NoTokens
    /\ ~client.auth.state.isAuthenticated

\* A login or a register fails in this step.
C27_FailedStep ==
    \/ client.auth.login.pc = "fetch" /\ client'.auth.login.result = "failure"
    \/ client.auth.register.pc = "fetch" /\ client'.auth.register.result = "failure"

\* C27: in every state of the AuthManager isAuthenticated is true exactly
\* when user is not null, whatever the interleaving of initializeAuth,
\* login, register and logout; a login or register that fails leaves user
\* and isAuthenticated as they were.
C27_AuthenticatedIffUser ==
    /\ [](client.auth.state.isAuthenticated <=> client.auth.state.user # NoUser)
    /\ [][C27_FailedStep =>
             /\ client'.auth.state.user = client.auth.state.user
             /\ client'.auth.state.isAuthenticated = client.auth.state.isAuthenticated]_vars

\* C27's case: a login has failed while a user was logged in, and the user
\* is logged in still.
C27_Witness ==
    /\ client.auth.login.result = "failure" /\ client.auth.state.error # "null"
    /\ client.auth.state.isAuthenticated /\ client.auth.state.user # NoUser
    /\ client.auth.initializeAuth.pc = "done"

\* The last login has resolved with success: true, no register has been
\* made and logout has not been called.
C28_Case ==
    /\ client.auth.login.pc = "idle" /\ client.auth.login.result = "success"
    /\ client.auth.register = NoRun
    /\ client.auth.logout = NoRun

C28_LoggedIn ==
    /\ client.auth.state.isAuthenticated
    /\ client.auth.state.user # NoUser
    /\ client.auth.state.user.email = client.auth.login.email

\* C28: once login has resolved with success: true the state is
\* isAuthenticated = true with the user who logged in until logout is
\* called, also when initializeAuth completes after the login did.
C28_LoginStays == C28_Case => C28_LoggedIn

\* C28's case: the login succeeded, initializeAuth's getCurrentUser failed
\* after it, and the state is logged out while the login's tokens are stored.
C28_Witness ==
    /\ C28_Case /\ ~client.auth.state.isAuthenticated /\ client.auth.state.user = NoUser
    /\ client.auth.initializeAuth.pc = "done" /\ client.auth.initializeAuth.result = "failure"
    /\ client.storage.accessToken # NoToken
    /\ client.storage.accessToken.userId = "u_member"

\* What the code keeps: after a successful login only the completion of
\* initializeAuth takes the logged-in state away before logout is called.
C28_OnlyInitializeAuthUndoes ==
    [][(C28_Case /\ C28_LoggedIn /\ C28_Case' /\ ~C28_LoggedIn')
          => /\ client.auth.initializeAuth.pc \in {"me", "logout"}
             /\ client'.auth.initializeAuth.pc = "done"]_vars

\* AuthManager.logout completes in this step.
C30_LogoutCompletes ==
    /\ client.auth.logout.pc = "fetch"
    /\ client'.auth.logout.pc = "idle"

\* C30: AuthManager.logout terminates, and whether its request succeeded,
\* was answered with an error or failed at the network, when it completes
\* both tokens are removed from localStorage and the state is user = null,
\* isAuthenticated = false, isLoading = false, error = null.
C30_LogoutTerminatesLoggedOut ==
    /\ (client.auth.logout.pc = "fetch") ~> (client.auth.logout.result = "done")
    /\ [][C30_LogoutCompletes =>
             /\ client'.storage = NoTokens
             /\ client'.auth.state = LoggedOutState]_vars

\* C30's case: the member logged in, logout has completed, the tokens are
\* gone and the state is the logged-out state.
C30_Witness ==
    /\ client.auth.login.result = "success"
    /\ client.auth.logout.pc = "idle" /\ client.auth.logout.result = "done"
    /\ client.storage = NoTokens
    /\ client.auth.state = LoggedOutState

\* l is in the array list.
C29_InList(l, list) == \E i \in 1..Len(list) : list[i] = l
\* How many times l is in list.
C29_Times(l, list) == Cardinality({i \in 1..Len(list) : list[i] = l})

\* C29: in a state change every listener that was subscribed when the
\* change started and does not unsubscribe itself is called exactly once,
\* also when another listener unsubscribes itself during the notification.
C29_EachListenerCalledOnce ==
    \A l \in Listeners :
        (C29_InList(l, client.auth.notified.before) /\ ~Unsubscribes(l))
            => C29_Times(l, client.auth.notified.called) = 1

\* C29's case: three listeners were subscribed when the state changed, the
\* second unsubscribed itself when called, and the third was not called.
C29_Witness ==
    /\ client.auth.notified.before = <<"first", "once", "last">>
    /\ client.auth.notified.called = <<"first", "once">>
    /\ client.auth.listeners = <<"first", "last">>
    /\ "once" \in client.auth.unsubscribed

\* What the code keeps: no listener is called twice in a state change or
\* without having been subscribed when it started, a listener whose
\* unsubscribe has returned is not in the array, and a step removes from the
\* array only a listener whose unsubscribe was called.
C29_UnsubscribedIsGone ==
    /\ [](\A l \in Listeners :
             /\ C29_Times(l, client.auth.notified.called) <= 1
             /\ C29_InList(l, client.auth.notified.called) => C29_InList(l, client.auth.notified.before)
             /\ l \in client.auth.unsubscribed => ~C29_InList(l, client.auth.listeners)
             /\ C29_Times(l, client.auth.listeners) <= 1)
    /\ [][\A l \in Listeners :
             (C29_InList(l, client.auth.listeners) /\ ~C29_InList(l, client'.auth.listeners))
                 => l \in client'.auth.unsubscribed]_vars

=============================================================================
